---- MODULE Spec2Model ----
(***************************************************************************)
(* Full-text indexing core of the mail server's store crate:               *)
(* crates/store/src/fts/index.rs (FtsDocument, Store::fts_index,           *)
(* Store::fts_remove, Store::fts_remove_all).                              *)
(*                                                                         *)
(* The collaborators whose code is outside index.rs (BitmapHash, Postings, *)
(* TokenType, BatchBuilder, the key serializer, the tokenizers and the     *)
(* language detector) are modelled from their description in spec.md and   *)
(* are marked so in MODEL_MAP.json.                                        *)
(***************************************************************************)
EXTENDS Integers, Sequences, FiniteSets, TLC

\* ------------------------------------------------------------------ bounds

\* Parts a document may hold (FtsDocument.parts is an unbounded Vec).
MaxParts == 2
\* fts_index / fts_remove / fts_remove_all calls of one behaviour of Spec.
MaxCalls == 4
\* The flush threshold of fts_index's commit loop, `batch.ops.len() >= 1000`
\* (index.rs:227), scaled down so that a document of a few tokens spans
\* several batches.
BatchOpsLimit == 5
\* The flush threshold of fts_remove's commit loop, `batch.ops.len() >= 1000`
\* (index.rs:314), scaled down so that a batch can hold the keys of two
\* documents and the keys of one document can span two batches.
RemoveOpsLimit == 6
\* Parts of a document of SpecRepeats and of SpecOversize.
MaxSampleParts == 3
\* The highest position a caller of Postings::insert passes.
MaxPosition == 3

\* --------------------------------------------------------------- constants

\* Faulty variant of TERM_INDEX_VERSION: the next format version.
TERM_INDEX_VERSION_Next == 1 + 1
TERM_INDEX_VERSION == 1
U32_LEN == 4
\* u32::MAX = 2^32 - 1, the largest account_id. TLC's integers end at
\* 2^31 - 1, so the ids from 2^31 on are held as their residues modulo 2^32
\* below 0: SerializeBeU32 gives U32_MAX the bytes FF FF FF FF.
U32_MAX == 0 - 1
\* backend::MAX_TOKEN_LENGTH: imported by index.rs, its value is set outside
\* it. Scenario 4 of spec.md indexes a 20-byte word, so it is at least 20.
MAX_TOKEN_LENGTH == 25
\* `position += 10` after every Tokenize and Text part.
PositionGap == 10

Unknown == "Unknown"
English == "English"
German  == "German"
Languages == {English, German}

None == <<"None">>
Some(x) == <<"Some", x>>

Min(a, b) == IF a < b THEN a ELSE b

Range(s) == {s[i] : i \in DOMAIN s}

RECURSIVE SetToSeq(_)
SetToSeq(S) ==
    IF S = {} THEN <<>>
    ELSE LET x == CHOOSE y \in S : TRUE IN <<x>> \o SetToSeq(S \ {x})

\* All orders in which the members of S can be iterated.
Orderings(S) ==
    {sq \in [1..Cardinality(S) -> S] : \A i, j \in 1..Cardinality(S) : sq[i] = sq[j] => i = j}

\* ------------------------------------------------------------------ Field

Body       == <<"Body">>
Attachment == <<"Attachment">>
Keyword    == <<"Keyword">>
Header(h)  == <<"Header", h>>

\* Faulty variant of FieldToU8: the header ids start at 2.
FieldToU8_HeaderFrom2(value) ==
    CASE value[1] = "Body"       -> 0
      [] value[1] = "Attachment" -> 1
      [] value[1] = "Keyword"    -> 2
      [] value[1] = "Header"     -> (2 + value[2]) % 256

\* Faulty variant of FieldToU8: the addition saturates at 255.
FieldToU8_Saturating(value) ==
    CASE value[1] = "Body"       -> 0
      [] value[1] = "Attachment" -> 1
      [] value[1] = "Keyword"    -> 2
      [] value[1] = "Header"     -> Min(3 + value[2], 255)

\* impl From<Field<T>> for u8
FieldToU8(value) ==
    CASE value[1] = "Body"       -> 0
      [] value[1] = "Attachment" -> 1
      [] value[1] = "Keyword"    -> 2
      [] value[1] = "Header"     -> (3 + value[2]) % 256

\* ------------------------------------------------------------- BitmapHash

\* The 8-byte digest of a token longer than 8 bytes. The hash function is
\* outside index.rs; this stand-in folds the bytes into 8 positions.
RECURSIVE FoldDigest(_, _, _)
FoldDigest(bytes, i, acc) ==
    IF i > Len(bytes) THEN acc
    ELSE FoldDigest(bytes, i + 1,
            [acc EXCEPT ![((i - 1) % 8) + 1] = (@ * 31 + bytes[i]) % 256])

Digest(bytes) == FoldDigest(bytes, 1, <<0, 0, 0, 0, 0, 0, 0, 0>>)

\* BitmapHash::new: tokens of at most 8 bytes are kept literally in
\* hash[..len] (zero padded), longer ones are digested and tagged len = 9.
BitmapHashNew(item) ==
    IF Len(item) <= 8
    THEN [hash |-> [i \in 1..8 |-> IF i <= Len(item) THEN item[i] ELSE 0],
          len  |-> Len(item)]
    ELSE [hash |-> Digest(item), len |-> 9]

\* --------------------------------------------------------------- Postings

TokenTypeWord(field)    == <<"word", field>>
TokenTypeStemmed(field) == <<"stemmed", field>>

\* Postings::default(): no bitmap entry, no position. `positions` maps a
\* field id to the positions recorded for it, in insertion order.
EmptyPostings == [bitmap |-> {}, positions |-> <<>>]

\* Postings::insert(token_type, position)
PostingsInsert(p, token_type, position) ==
    LET f   == token_type[2]
        old == IF f \in DOMAIN p.positions THEN p.positions[f] ELSE <<>>
    IN  [bitmap    |-> p.bitmap \cup {token_type},
         positions |-> [g \in DOMAIN p.positions \cup {f} |->
                           IF g = f THEN Append(old, position) ELSE p.positions[g]]]

\* Postings::insert_keyword(token_type)
PostingsInsertKeyword(p, token_type) ==
    [p EXCEPT !.bitmap = @ \cup {token_type}]

DeltaEncode(s) == [i \in 1..Len(s) |-> IF i = 1 THEN s[1] ELSE s[i] - s[i - 1]]

RECURSIVE DeltaDecode(_)
DeltaDecode(d) ==
    IF d = <<>> THEN <<>>
    ELSE LET front == DeltaDecode(SubSeq(d, 1, Len(d) - 1))
         IN  Append(front, IF front = <<>> THEN d[1] ELSE front[Len(front)] + d[Len(d)])

\* Postings::serialize: the version byte, the bitmap, then the positions
\* delta-encoded and grouped by field.
PostingsSerialize(p) ==
    <<TERM_INDEX_VERSION, p.bitmap,
      [f \in DOMAIN p.positions |-> DeltaEncode(p.positions[f])]>>

\* Postings::deserialize: rejects an unknown version.
PostingsDeserialize(bytes) ==
    IF bytes[1] # TERM_INDEX_VERSION THEN <<"Err", "unknown version">>
    ELSE <<"Ok", [bitmap    |-> bytes[2],
                  positions |-> [f \in DOMAIN bytes[3] |-> DeltaDecode(bytes[3][f])]]>>

\* -------------------------------------------------------------- tokenizers

Space == 32

RECURSIVE SplitWords(_, _, _)
SplitWords(text, i, cur) ==
    IF i > Len(text) THEN (IF cur = <<>> THEN <<>> ELSE <<cur>>)
    ELSE IF text[i] = Space
         THEN (IF cur = <<>> THEN <<>> ELSE <<cur>>) \o SplitWords(text, i + 1, <<>>)
         ELSE SplitWords(text, i + 1, Append(cur, text[i]))

\* WordTokenizer::new(text, max_len): the words of the text, without those
\* longer than max_len.
WordTokenizer(text, max_len) ==
    LET Short(w) == Len(w) <= max_len
    IN  [i \in DOMAIN SelectSeq(SplitWords(text, 1, <<>>), Short) |->
            [word |-> SelectSeq(SplitWords(text, 1, <<>>), Short)[i]]]

\* Sample words, as bytes.
W_a          == <<97>>
W_fox        == <<102, 111, 120>>
W_foxes      == <<102, 111, 120, 101, 115>>
W_letters    == <<108, 101, 116, 116, 101, 114, 115>>
W_incoming   == <<105, 110, 99, 111, 109, 105, 110, 103>>
W_attachment == <<97, 116, 116, 97, 99, 104, 109, 101, 110, 116>>
W_oversized  == [i \in 1..(MAX_TOKEN_LENGTH + 5) |-> 122]

\* The stemmer's dictionary: the root of a word in a language, when it has
\* one that differs from the word.
StemOf(word, language) ==
    IF language = English /\ word = W_foxes THEN Some(W_fox) ELSE None

\* Stemmer::new(text, language, max_len)
Stemmer(text, language, max_len) ==
    LET words == WordTokenizer(text, max_len)
    IN  [i \in DOMAIN words |->
            [word |-> words[i].word, stemmed_word |-> StemOf(words[i].word, language)]]

\* ------------------------------------------------------------ FtsDocument

TypeText(language) == <<"Text", language>>
TypeTokenize       == <<"Tokenize">>
TypeKeyword        == <<"Keyword">>

\* FtsDocument::with_default_language
with_default_language(default_language) ==
    [parts |-> <<>>, default_language |-> default_language,
     account_id |-> 0, document_id |-> 0, collection |-> 0]

with_account_id(self, account_id)   == [self EXCEPT !.account_id = account_id]
with_document_id(self, document_id) == [self EXCEPT !.document_id = document_id]
with_collection(self, collection)   == [self EXCEPT !.collection = collection]

\* FtsDocument::index
index(self, field, text, language) ==
    [self EXCEPT !.parts = Append(@, [field |-> field, text |-> text, typ |-> TypeText(language)])]

\* FtsDocument::index_tokenized
index_tokenized(self, field, text) ==
    [self EXCEPT !.parts = Append(@, [field |-> field, text |-> text, typ |-> TypeTokenize])]

\* FtsDocument::index_keyword
index_keyword(self, field, text) ==
    [self EXCEPT !.parts = Append(@, [field |-> field, text |-> text, typ |-> TypeKeyword])]

\* ------------------------------------------------- fts_index: the postings

\* Faulty variant of Entry: the entry is started afresh at every insertion.
Entry_Fresh(tokens, hash) == EmptyPostings

\* tokens.entry(hash).or_default()
Entry(tokens, hash) == IF hash \in DOMAIN tokens THEN tokens[hash] ELSE EmptyPostings

Put(map, key, value) ==
    [k \in DOMAIN map \cup {key} |-> IF k = key THEN value ELSE map[k]]

\* What LanguageDetector::detect may return for the parts of a document: a
\* language or Unknown for every Text(Unknown) part (the detector is not
\* asked about the other parts).
DetectOutcomes(document) ==
    {det \in [DOMAIN document.parts -> Languages \cup {Unknown}] :
        \A i \in DOMAIN document.parts :
            document.parts[i].typ # TypeText(Unknown) => det[i] = Unknown}

\* What LanguageDetector::most_frequent_language may return: nothing when
\* the detector was never fed, otherwise nothing or one of its languages.
MostFrequentOutcomes(document) ==
    IF \E i \in DOMAIN document.parts : document.parts[i].typ = TypeText(Unknown)
    THEN {None} \cup {Some(l) : l \in Languages}
    ELSE {None}

\* The state of fts_index while it builds the postings: the local variables
\* tokens, parts and position, and the history of the calls it made
\* (inserts: Postings::insert, stems: the stemmed words the stemmer gave,
\* langs: the language handed to Stemmer::new for each Text part).
NewAcc == [tokens |-> <<>>, parts |-> <<>>, position |-> 0,
           inserts |-> <<>>, stems |-> <<>>, langs |-> <<>>]

\* Faulty variant of TokenizeToken: `position += 1` is missing.
TokenizeToken_NoIncrement(acc, token, field, part) ==
    LET hash == BitmapHashNew(token.word)
    IN  [acc EXCEPT
            !.tokens   = Put(@, hash,
                             PostingsInsert(Entry(@, hash), TokenTypeWord(field), acc.position)),
            !.inserts  = Append(@, [part |-> part, hash |-> hash,
                                    token_type |-> TokenTypeWord(field),
                                    position |-> acc.position])]

\* The body of the Tokenize loop for one token of the word tokenizer.
TokenizeToken(acc, token, field, part) ==
    LET hash == BitmapHashNew(token.word)
    IN  [acc EXCEPT
            !.tokens   = Put(@, hash,
                             PostingsInsert(Entry(@, hash), TokenTypeWord(field), acc.position)),
            !.inserts  = Append(@, [part |-> part, hash |-> hash,
                                    token_type |-> TokenTypeWord(field),
                                    position |-> acc.position]),
            !.position = @ + 1]

\* Faulty variant of TokenizeWords: a word the part has given before is passed
\* over.
RECURSIVE TokenizeWords_SkipRepeated(_, _, _, _, _)
TokenizeWords_SkipRepeated(acc, words, k, field, part) ==
    IF k > Len(words) THEN acc
    ELSE IF \E n \in 1..(k - 1) : words[n] = words[k]
         THEN TokenizeWords_SkipRepeated(acc, words, k + 1, field, part)
         ELSE TokenizeWords_SkipRepeated(TokenizeToken(acc, words[k], field, part),
                                         words, k + 1, field, part)

\* The Tokenize loop over the tokens of the word tokenizer.
RECURSIVE TokenizeWords(_, _, _, _, _)
TokenizeWords(acc, words, k, field, part) ==
    IF k > Len(words) THEN acc
    ELSE TokenizeWords(TokenizeToken(acc, words[k], field, part), words, k + 1, field, part)

\* Type::Text(language): the part is stashed with its language.
TextPart(acc, text, detected, part) ==
    LET language == IF text.typ[2] = Unknown THEN detected ELSE text.typ[2]
    IN  [acc EXCEPT !.parts = Append(@, [field |-> text.field, language |-> language,
                                         text |-> text.text, part |-> part])]

\* Faulty variant of TokenizePart: `position += 10` after the part is missing.
TokenizePart_NoGap(acc, text, part) ==
    TokenizeWords(acc, WordTokenizer(text.text, MAX_TOKEN_LENGTH), 1,
                  FieldToU8(text.field), part)

\* Faulty variant of TokenizePart: the word tokenizer is given no length bound.
TokenizePart_Unbounded(acc, text, part) ==
    LET done == TokenizeWords(acc, WordTokenizer(text.text, Len(text.text)), 1,
                              FieldToU8(text.field), part)
    IN  [done EXCEPT !.position = @ + PositionGap]

\* Type::Tokenize
TokenizePart(acc, text, part) ==
    LET done == TokenizeWords(acc, WordTokenizer(text.text, MAX_TOKEN_LENGTH), 1,
                              FieldToU8(text.field), part)
    IN  [done EXCEPT !.position = @ + PositionGap]

\* Faulty variant of KeywordPart: the keyword is recorded as a stemmed form.
KeywordPart_Stemmed(acc, text) ==
    LET hash == BitmapHashNew(text.text)
    IN  [acc EXCEPT !.tokens = Put(@, hash,
                                   PostingsInsertKeyword(Entry(@, hash),
                                       TokenTypeStemmed(FieldToU8(text.field))))]

\* Faulty variant of KeywordPart: the keyword is recorded with insert, at the
\* running position, which then moves on.
KeywordPart_Positional(acc, text) ==
    LET hash == BitmapHashNew(text.text)
    IN  [acc EXCEPT !.tokens = Put(@, hash,
                                   PostingsInsert(Entry(@, hash),
                                       TokenTypeWord(FieldToU8(text.field)), acc.position)),
                    !.position = @ + 1]

\* Faulty variant of KeywordPart: only the first 7 bytes of the text are hashed.
KeywordPart_Truncated(acc, text) ==
    LET hash == BitmapHashNew(SubSeq(text.text, 1, Min(Len(text.text), 7)))
    IN  [acc EXCEPT !.tokens = Put(@, hash,
                                   PostingsInsertKeyword(Entry(@, hash),
                                       TokenTypeWord(FieldToU8(text.field))))]

\* Type::Keyword
KeywordPart(acc, text) ==
    LET hash == BitmapHashNew(text.text)
    IN  [acc EXCEPT !.tokens = Put(@, hash,
                                   PostingsInsertKeyword(Entry(@, hash),
                                       TokenTypeWord(FieldToU8(text.field))))]

\* The first loop over document.parts.
RECURSIVE FirstPass(_, _, _, _)
FirstPass(document, det, i, acc) ==
    IF i > Len(document.parts) THEN acc
    ELSE LET text == document.parts[i]
         IN  FirstPass(document, det, i + 1,
                CASE text.typ[1] = "Text"     -> TextPart(acc, text, det[i], i)
                  [] text.typ[1] = "Tokenize" -> TokenizePart(acc, text, i)
                  [] text.typ[1] = "Keyword"  -> KeywordPart(acc, text))

\* Faulty variant of StemToken: the stemmed form is recorded with insert, at the
\* position of its word, instead of insert_keyword.
StemToken_StemPositional(acc, token, field, part) ==
    LET hash  == BitmapHashNew(token.word)
        word  == [acc EXCEPT
                     !.tokens  = Put(@, hash,
                                     PostingsInsert(Entry(@, hash), TokenTypeWord(field),
                                                    acc.position)),
                     !.inserts = Append(@, [part |-> part, hash |-> hash,
                                            token_type |-> TokenTypeWord(field),
                                            position |-> acc.position])]
        stem  == IF token.stemmed_word[1] = "Some"
                 THEN LET shash == BitmapHashNew(token.stemmed_word[2])
                      IN  [word EXCEPT
                             !.tokens = Put(@, shash,
                                            PostingsInsert(Entry(@, shash),
                                                           TokenTypeStemmed(field),
                                                           acc.position)),
                             !.stems  = Append(@, [part |-> part, field |-> field,
                                                   word |-> token.word,
                                                   stemmed_word |-> token.stemmed_word[2]])]
                 ELSE word
    IN  [stem EXCEPT !.position = @ + 1]

\* The body of the stemming loop for one token of the stemmer.
StemToken(acc, token, field, part) ==
    LET hash  == BitmapHashNew(token.word)
        word  == [acc EXCEPT
                     !.tokens  = Put(@, hash,
                                     PostingsInsert(Entry(@, hash), TokenTypeWord(field),
                                                    acc.position)),
                     !.inserts = Append(@, [part |-> part, hash |-> hash,
                                            token_type |-> TokenTypeWord(field),
                                            position |-> acc.position])]
        stem  == IF token.stemmed_word[1] = "Some"
                 THEN LET shash == BitmapHashNew(token.stemmed_word[2])
                      IN  [word EXCEPT
                             !.tokens = Put(@, shash,
                                            PostingsInsertKeyword(Entry(@, shash),
                                                                  TokenTypeStemmed(field))),
                             !.stems  = Append(@, [part |-> part, field |-> field,
                                                   word |-> token.word,
                                                   stemmed_word |-> token.stemmed_word[2]])]
                 ELSE word
    IN  [stem EXCEPT !.position = @ + 1]

RECURSIVE StemWords(_, _, _, _, _)
StemWords(acc, stemmed, k, field, part) ==
    IF k > Len(stemmed) THEN acc
    ELSE StemWords(StemToken(acc, stemmed[k], field, part), stemmed, k + 1, field, part)

\* Faulty variant of StemPart: the language of the part is ignored, every part is
\* stemmed with default_language.
StemPart_DefaultOnly(acc, p, default_language) ==
    LET done == StemWords(acc, Stemmer(p.text, default_language, MAX_TOKEN_LENGTH), 1,
                          FieldToU8(p.field), p.part)
    IN  [done EXCEPT !.position = @ + PositionGap,
                     !.langs    = Append(@, [part |-> p.part, language |-> default_language])]

\* Faulty variant of StemPart: `position += 10` is applied only after a part
\* that gave a word.
StemPart_GapIfWords(acc, p, default_language) ==
    LET language == IF p.language # Unknown THEN p.language ELSE default_language
        done     == StemWords(acc, Stemmer(p.text, language, MAX_TOKEN_LENGTH), 1,
                              FieldToU8(p.field), p.part)
    IN  [done EXCEPT !.position = IF done.position = acc.position THEN @ ELSE @ + PositionGap,
                     !.langs    = Append(@, [part |-> p.part, language |-> language])]

\* The body of the second loop for one stashed Text part.
StemPart(acc, p, default_language) ==
    LET language == IF p.language # Unknown THEN p.language ELSE default_language
        done     == StemWords(acc, Stemmer(p.text, language, MAX_TOKEN_LENGTH), 1,
                              FieldToU8(p.field), p.part)
    IN  [done EXCEPT !.position = @ + PositionGap,
                     !.langs    = Append(@, [part |-> p.part, language |-> language])]

\* Faulty variant of SecondPass: the stashed Text parts are taken last to first.
RECURSIVE SecondPass_Reversed(_, _, _)
SecondPass_Reversed(default_language, j, acc) ==
    IF j > Len(acc.parts) THEN acc
    ELSE SecondPass_Reversed(default_language, j + 1,
                             StemPart(acc, acc.parts[Len(acc.parts) + 1 - j], default_language))

\* The second loop, over the stashed Text parts.
RECURSIVE SecondPass(_, _, _)
SecondPass(default_language, j, acc) ==
    IF j > Len(acc.parts) THEN acc
    ELSE SecondPass(default_language, j + 1, StemPart(acc, acc.parts[j], default_language))

\* fts_index up to `if tokens.is_empty()`: det and mfl are the answers of the
\* language detector.
BuildPostings(document, det, mfl) ==
    LET first            == FirstPass(document, det, 1, NewAcc)
        default_language == IF mfl[1] = "Some" THEN mfl[2] ELSE document.default_language
    IN  SecondPass(default_language, 1, first)

\* ------------------------------------------------------- keys and batches

\* A u32 as 4 big-endian bytes.
SerializeBeU32(n) ==
    <<(n \div 16777216) % 256, (n \div 65536) % 256, (n \div 256) % 256, n % 256>>

\* key.deserialize_be_u32(at), at counted from 0.
DeserializeBeU32(key, at) ==
    key[at + 1] * 16777216 + key[at + 2] * 65536 + key[at + 3] * 256 + key[at + 4]

\* The persisted posting key of ValueClass::FtsIndex(hash):
\* [account:4 BE][token bytes: len or 8][len:1 if len < 9][document:4 BE].
FtsIndexKey(account_id, document_id, hash) ==
    SerializeBeU32(account_id)
        \o SubSeq(hash.hash, 1, Min(hash.len, 8))
        \o (IF hash.len < 9 THEN <<hash.len>> ELSE <<>>)
        \o SerializeBeU32(document_id)

\* ValueKey { account_id, collection, document_id, class: FtsIndex(hash) }:
\* the store keeps one posting per (account, collection, hash, len,
\* document); the collection is not among the bytes of the posting key.
ValueKey(account_id, collection, document_id, hash) ==
    [collection |-> collection, key |-> FtsIndexKey(account_id, document_id, hash)]

\* Operation::AccountId / Collection / DocumentId / Value
OpAccountId(account_id)   == <<"AccountId", account_id>>
OpCollection(collection)  == <<"Collection", collection>>
OpDocumentId(document_id) == <<"DocumentId", document_id>>
OpValue(class, op)        == <<"Value", class, op>>
ValueOpSet(bytes)         == <<"Set", bytes>>
ValueOpClear              == <<"Clear">>

\* BatchBuilder: its `ops`, header records included.
BatchBuilderNew == [ops |-> <<>>]
BatchWithAccountId(batch, account_id)   == [batch EXCEPT !.ops = Append(@, OpAccountId(account_id))]
BatchWithCollection(batch, collection)  == [batch EXCEPT !.ops = Append(@, OpCollection(collection))]
BatchUpdateDocument(batch, document_id) == [batch EXCEPT !.ops = Append(@, OpDocumentId(document_id))]
BatchPush(batch, op)                    == [batch EXCEPT !.ops = Append(@, op)]

\* The posting operations of a batch.
ValueOps(batch) == SelectSeq(batch.ops, LAMBDA op : op[1] = "Value")

\* BatchBuilder::is_empty: a batch of header records alone changes nothing.
BatchIsEmpty(batch) == ValueOps(batch) = <<>>

Remove(map, key) == [k \in DOMAIN map \ {key} |-> map[k]]

\* Store::write(batch): the operations applied in order, each Value under
\* the account, collection and document of the header records before it.
RECURSIVE ApplyOps(_, _, _, _)
ApplyOps(st, ops, i, scope) ==
    IF i > Len(ops) THEN st
    ELSE LET op == ops[i]
         IN  CASE op[1] = "AccountId"  -> ApplyOps(st, ops, i + 1, [scope EXCEPT !.account_id = op[2]])
               [] op[1] = "Collection" -> ApplyOps(st, ops, i + 1, [scope EXCEPT !.collection = op[2]])
               [] op[1] = "DocumentId" -> ApplyOps(st, ops, i + 1, [scope EXCEPT !.document_id = op[2]])
               [] op[1] = "Value" ->
                    LET k == ValueKey(scope.account_id, scope.collection, scope.document_id, op[2])
                    IN  ApplyOps(IF op[3][1] = "Set" THEN Put(st, k, op[3][2]) ELSE Remove(st, k),
                                 ops, i + 1, scope)

Write(st, batch) ==
    ApplyOps(st, batch.ops, 1, [account_id |-> 0, collection |-> 0, document_id |-> 0])

\* The batches of todo written one after the other.
RECURSIVE WriteAll(_, _)
WriteAll(st, todo) ==
    IF todo = <<>> THEN st ELSE WriteAll(Write(st, Head(todo)), Tail(todo))

\* ---------------------------------------------------- fts_index: the commit

\* `keys`: one Set operation per entry of tokens.
SerializeKeys(tokens) ==
    {OpValue(hash, ValueOpSet(PostingsSerialize(tokens[hash]))) : hash \in DOMAIN tokens}

\* BatchBuilder::new() with the three header records of the document.
IndexBatch(document) ==
    BatchUpdateDocument(
        BatchWithCollection(
            BatchWithAccountId(BatchBuilderNew, document.account_id),
            document.collection),
        document.document_id)

\* Faulty variant of IndexCommit: the flush test is `>` instead of `>=`.
RECURSIVE IndexCommit_OffByOne(_, _, _, _)
IndexCommit_OffByOne(document, batch, keys, written) ==
    IF keys = <<>>
    THEN IF ~BatchIsEmpty(batch) THEN Append(written, batch) ELSE written
    ELSE IF Len(batch.ops) > BatchOpsLimit
         THEN IndexCommit_OffByOne(document, BatchPush(IndexBatch(document), Head(keys)),
                                   Tail(keys), Append(written, batch))
         ELSE IndexCommit_OffByOne(document, BatchPush(batch, Head(keys)), Tail(keys), written)

\* Faulty variant of IndexCommit: the key at hand when the batch is flushed is
\* not pushed onto the fresh batch.
RECURSIVE IndexCommit_DropAtFlush(_, _, _, _)
IndexCommit_DropAtFlush(document, batch, keys, written) ==
    IF keys = <<>>
    THEN IF ~BatchIsEmpty(batch) THEN Append(written, batch) ELSE written
    ELSE IF Len(batch.ops) >= BatchOpsLimit
         THEN IndexCommit_DropAtFlush(document, IndexBatch(document), Tail(keys),
                                      Append(written, batch))
         ELSE IndexCommit_DropAtFlush(document, BatchPush(batch, Head(keys)), Tail(keys), written)

\* The commit loop and the residual flush: the batches handed to write, in
\* order, each write succeeding.
RECURSIVE IndexCommit(_, _, _, _)
IndexCommit(document, batch, keys, written) ==
    IF keys = <<>>
    THEN IF ~BatchIsEmpty(batch) THEN Append(written, batch) ELSE written
    ELSE IF Len(batch.ops) >= BatchOpsLimit
         THEN IndexCommit(document, BatchPush(IndexBatch(document), Head(keys)), Tail(keys),
                          Append(written, batch))
         ELSE IndexCommit(document, BatchPush(batch, Head(keys)), Tail(keys), written)

\* The orders in which tokens.into_iter() may give the next write its keys:
\* the map's iteration order is arbitrary, so any keys not yet written may
\* come next, as many as the loop pushes before it flushes.
NextKeys(document, left) ==
    LET n == Len(ValueOps(Head(IndexCommit(document, IndexBatch(document), SetToSeq(left), <<>>))))
    IN  {sq \in [1..n -> left] : \A i, j \in 1..n : sq[i] = sq[j] => i = j}

\* Faulty variant of NextBatch: the write takes the batch after the next one
\* when there is one.
NextBatch_Skip(document, left, sq) ==
    LET all == IndexCommit(document, IndexBatch(document), sq \o SetToSeq(left \ Range(sq)), <<>>)
    IN  all[Len(all)]

\* The batch of the next write when the iteration continues with sq.
NextBatch(document, left, sq) ==
    Head(IndexCommit(document, IndexBatch(document), sq \o SetToSeq(left \ Range(sq)), <<>>))

\* -------------------------------------------------- fts_remove: the scan

RECURSIVE LexLess(_, _)
LexLess(a, b) ==
    IF b = <<>> THEN FALSE
    ELSE IF a = <<>> THEN TRUE
    ELSE IF a[1] # b[1] THEN a[1] < b[1]
    ELSE LexLess(Tail(a), Tail(b))

ZeroHash == [hash |-> <<0, 0, 0, 0, 0, 0, 0, 0>>, len |-> 1]

\* IterateParams::new(begin, end): the posting keys from begin up to end,
\* in key order. `account_id + 1` is a u32 addition: where it does not
\* panic, u32::MAX + 1 wraps to 0.
ScanBegin(account_id) == FtsIndexKey(account_id, 0, ZeroHash)
ScanEnd(account_id)   == FtsIndexKey(account_id + 1, 0, ZeroHash)

InScan(st, account_id) ==
    {k \in DOMAIN st : /\ ~LexLess(k.key, ScanBegin(account_id))
                       /\ LexLess(k.key, ScanEnd(account_id))}

KeyBefore(a, b) ==
    \/ LexLess(a.key, b.key)
    \/ a.key = b.key /\ a.collection < b.collection

RECURSIVE SortKeys(_)
SortKeys(S) ==
    IF S = {} THEN <<>>
    ELSE LET first == CHOOSE a \in S : \A b \in S \ {a} : KeyBefore(a, b)
         IN  <<first>> \o SortKeys(S \ {first})

PadHash(bytes) == [i \in 1..8 |-> IF i <= Len(bytes) THEN bytes[i] ELSE 0]

\* Faulty variant of Visit: the document_ids.contains(document_id) test is missing.
Visit_NoFilter(key, document_ids) ==
    LET document_id == DeserializeBeU32(key, Len(key) - U32_LEN)
        L           == Len(key) - (U32_LEN * 2) - 1
    IN  IF L = 9
        THEN <<"Delete", document_id,
               [hash |-> SubSeq(key, U32_LEN + 1, U32_LEN + 8),
                len  |-> key[Len(key) - U32_LEN - 2 + 1]]>>
        ELSE IF L \in 1..7
             THEN <<"Delete", document_id,
                    [hash |-> PadHash(SubSeq(key, U32_LEN + 1, U32_LEN + L)), len |-> L]>>
        ELSE <<"Err", "Invalid text bitmap key length">>

\* Faulty variant of Visit: a key of an invalid length is skipped.
Visit_SkipInvalid(key, document_ids) ==
    LET document_id == DeserializeBeU32(key, Len(key) - U32_LEN)
        L           == Len(key) - (U32_LEN * 2) - 1
    IN  IF document_id \notin document_ids THEN <<"Skip">>
        ELSE IF L = 9
             THEN <<"Delete", document_id,
                    [hash |-> SubSeq(key, U32_LEN + 1, U32_LEN + 8),
                     len  |-> key[Len(key) - U32_LEN - 2 + 1]]>>
        ELSE IF L \in 1..7
             THEN <<"Delete", document_id,
                    [hash |-> PadHash(SubSeq(key, U32_LEN + 1, U32_LEN + L)), len |-> L]>>
        ELSE <<"Skip">>

\* The visitor closure of the scan on one key: the key is skipped, gives
\* the class to delete for its document, or is rejected.
Visit(key, document_ids) ==
    LET document_id == DeserializeBeU32(key, Len(key) - U32_LEN)
        L           == Len(key) - (U32_LEN * 2) - 1
    IN  IF document_id \notin document_ids THEN <<"Skip">>
        ELSE IF L = 9
             THEN <<"Delete", document_id,
                    [hash |-> SubSeq(key, U32_LEN + 1, U32_LEN + 8),
                     len  |-> key[Len(key) - U32_LEN - 2 + 1]]>>
        ELSE IF L \in 1..7
             THEN <<"Delete", document_id,
                    [hash |-> PadHash(SubSeq(key, U32_LEN + 1, U32_LEN + L)), len |-> L]>>
        ELSE <<"Err", "Invalid text bitmap key length">>

\* The scan over the sorted keys: delete_keys, or the visitor's error.
RECURSIVE ScanKeys(_, _, _, _)
ScanKeys(sorted, i, document_ids, delete_keys) ==
    IF i > Len(sorted) THEN <<"Ok", delete_keys>>
    ELSE LET v == Visit(sorted[i].key, document_ids)
         IN  CASE v[1] = "Skip"   -> ScanKeys(sorted, i + 1, document_ids, delete_keys)
               [] v[1] = "Err"    -> v
               [] v[1] = "Delete" ->
                    ScanKeys(sorted, i + 1, document_ids,
                             Put(delete_keys, v[2],
                                 Append(IF v[2] \in DOMAIN delete_keys
                                        THEN delete_keys[v[2]] ELSE <<>>, v[3])))

Scan(st, account_id, document_ids) ==
    ScanKeys(SortKeys(InScan(st, account_id)), 1, document_ids, <<>>)

\* ------------------------------------------------ fts_remove: the commit

RemoveBatch(account_id, collection) ==
    BatchWithCollection(BatchWithAccountId(BatchBuilderNew, account_id), collection)

\* Faulty variant of RemoveKeys: the key at hand when the batch is flushed is not
\* pushed onto the fresh batch.
RECURSIVE RemoveKeys_DropAtFlush(_, _, _, _, _, _)
RemoveKeys_DropAtFlush(account_id, collection, document_id, batch, keys, written) ==
    IF keys = <<>> THEN [batch |-> batch, written |-> written]
    ELSE IF Len(batch.ops) >= RemoveOpsLimit
         THEN RemoveKeys_DropAtFlush(account_id, collection, document_id,
                         BatchUpdateDocument(RemoveBatch(account_id, collection), document_id),
                         Tail(keys), Append(written, batch))
         ELSE RemoveKeys_DropAtFlush(account_id, collection, document_id,
                         BatchPush(batch, OpValue(Head(keys), ValueOpClear)),
                         Tail(keys), written)

\* Faulty variant of RemoveKeys: the fresh batch started at a flush is not given
\* the document id.
RECURSIVE RemoveKeys_NoReseed(_, _, _, _, _, _)
RemoveKeys_NoReseed(account_id, collection, document_id, batch, keys, written) ==
    IF keys = <<>> THEN [batch |-> batch, written |-> written]
    ELSE IF Len(batch.ops) >= RemoveOpsLimit
         THEN RemoveKeys_NoReseed(account_id, collection, document_id,
                         BatchPush(RemoveBatch(account_id, collection),
                                   OpValue(Head(keys), ValueOpClear)),
                         Tail(keys), Append(written, batch))
         ELSE RemoveKeys_NoReseed(account_id, collection, document_id,
                         BatchPush(batch, OpValue(Head(keys), ValueOpClear)),
                         Tail(keys), written)

\* The inner loop over the keys of one document.
RECURSIVE RemoveKeys(_, _, _, _, _, _)
RemoveKeys(account_id, collection, document_id, batch, keys, written) ==
    IF keys = <<>> THEN [batch |-> batch, written |-> written]
    ELSE IF Len(batch.ops) >= RemoveOpsLimit
         THEN RemoveKeys(account_id, collection, document_id,
                         BatchPush(BatchUpdateDocument(RemoveBatch(account_id, collection),
                                                       document_id),
                                   OpValue(Head(keys), ValueOpClear)),
                         Tail(keys), Append(written, batch))
         ELSE RemoveKeys(account_id, collection, document_id,
                         BatchPush(batch, OpValue(Head(keys), ValueOpClear)),
                         Tail(keys), written)

\* Faulty variant of RemoveCommit: the residual batch is written whether it
\* is empty or not.
RECURSIVE RemoveCommit_FlushAlways(_, _, _, _, _, _)
RemoveCommit_FlushAlways(account_id, collection, delete_keys, order, batch, written) ==
    IF order = <<>>
    THEN Append(written, batch)
    ELSE LET document_id == Head(order)
             inner == RemoveKeys(account_id, collection, document_id,
                                 BatchUpdateDocument(batch, document_id),
                                 delete_keys[document_id], written)
         IN  RemoveCommit_FlushAlways(account_id, collection, delete_keys, Tail(order),
                                      inner.batch, inner.written)

\* The loop over delete_keys, iterated in the order `order` of its document
\* ids, and the residual flush: the batches handed to write, each write
\* succeeding.
RECURSIVE RemoveCommit(_, _, _, _, _, _)
RemoveCommit(account_id, collection, delete_keys, order, batch, written) ==
    IF order = <<>>
    THEN IF ~BatchIsEmpty(batch) THEN Append(written, batch) ELSE written
    ELSE LET document_id == Head(order)
             inner == RemoveKeys(account_id, collection, document_id,
                                 BatchUpdateDocument(batch, document_id),
                                 delete_keys[document_id], written)
         IN  RemoveCommit(account_id, collection, delete_keys, Tail(order),
                          inner.batch, inner.written)

\* ------------------------------------------------------------------ state

VARIABLES
    store,     \* the FtsIndex entries of the KV store: posting key -> value bytes
    pc,        \* per task: where its current call stands
    document,  \* per task: the FtsDocument it builds or indexes
    args,      \* per task: the arguments of its fts_remove
    keys,      \* per task: fts_index's `keys` not yet written
    batches,   \* per task: the batches fts_remove has still to write
    result,    \* per task: what its call returned
    hist,      \* per task: history of the current call
    ncalls,    \* calls made so far
    postings,  \* per task: the Postings a caller of its API builds and encodes
    wire,      \* per task: a Property, its serialized bytes and what they decode to
    parser     \* per task: the JSON object handed to ResultReference::parse and the result

vars == <<store, pc, document, args, keys, batches, result, hist, ncalls, postings, wire, parser>>

Tasks == {1, 2}

NoDocument == with_default_language(Unknown)
NoArgs     == [account_id |-> 0, collection |-> 0, document_ids |-> {}]
\* call: the operation; before: the store when it was called; writes: the
\* batches it has written; tokens, inserts, stems: the hashes of fts_index's
\* `tokens`, its Postings::insert calls and the stemmed words it recorded;
\* det, mfl: what the language detector answered; langs: the language each
\* Text part was stemmed with; iterated: the iterate of fts_remove has
\* returned Ok or the visitor's error; scanned: the store as it found it;
\* seen: how many batches each task's call had written by then.
NoHist     == [call |-> "none", before |-> <<>>, writes |-> <<>>,
               tokens |-> {}, inserts |-> <<>>, stems |-> <<>>,
               det |-> <<>>, mfl |-> None, langs |-> <<>>,
               iterated |-> FALSE, scanned |-> <<>>, seen |-> [u \in Tasks |-> 0]]
\* p: the container; last: the position of its latest insert; bytes: what
\* serialize gave; back: what deserialize gave for these bytes.
NoPostings == [p |-> EmptyPostings, last |-> -1, bytes |-> None, back |-> None]
\* value: the Property to encode; bytes: the input of deserialize_value;
\* back: what deserialize_value returned.
NoWire     == [value |-> None, bytes |-> None, back |-> <<"NotRun">>]
\* input: the members of the object, in the order of the text; out: what
\* parse returned.
NoParser   == [input |-> None, out |-> <<"NotRun">>]

Init ==
    /\ store = <<>>
    /\ pc = [t \in Tasks |-> "idle"]
    /\ document = [t \in Tasks |-> NoDocument]
    /\ args = [t \in Tasks |-> NoArgs]
    /\ keys = [t \in Tasks |-> {}]
    /\ batches = [t \in Tasks |-> <<>>]
    /\ result = [t \in Tasks |-> "none"]
    /\ hist = [t \in Tasks |-> NoHist]
    /\ ncalls = 0
    /\ postings = [t \in Tasks |-> NoPostings]
    /\ wire = [t \in Tasks |-> NoWire]
    /\ parser = [t \in Tasks |-> NoParser]

\* ------------------------------------------------------------ sample inputs

T_empty    == <<>>
T_fox      == W_fox
T_foxes_a  == W_foxes \o <<Space>> \o W_a
T_long     == W_attachment \o <<Space>> \o W_oversized
T_incoming == W_incoming
T_letters  == W_letters

TextInputs ==
    {<<Body, T_foxes_a, Unknown>>, <<Body, T_foxes_a, English>>,
     <<Header(0), T_fox, German>>, <<Body, T_empty, English>>}
TokenizeInputs ==
    {<<Body, T_foxes_a>>, <<Header(0), T_fox>>, <<Body, T_long>>, <<Body, T_empty>>}
KeywordInputs ==
    {<<Keyword, T_incoming>>, <<Body, T_fox>>, <<Body, T_empty>>, <<Header(0), T_foxes_a>>}

Accounts    == {1, 2}
Collections == {0, 1}
DocumentIds == {1, 2}

NewDoc(account_id, collection, document_id) ==
    with_document_id(
        with_collection(with_account_id(with_default_language(English), account_id),
                        collection),
        document_id)

\* The documents the callers of Spec index.
SampleDocuments ==
    {index_tokenized(index_tokenized(NewDoc(1, 0, 1), Body, T_foxes_a), Header(0), T_letters),
     index_keyword(index(NewDoc(1, 0, 2), Body, W_foxes, English), Header(0), W_attachment),
     index_tokenized(NewDoc(1, 1, 1), Body, W_a),
     index_tokenized(NewDoc(2, 0, 1), Body, T_fox),
     index_keyword(NewDoc(1, 1, 2), Keyword, T_incoming),
     index_keyword(NewDoc(1, 0, 1), Body, T_empty),
     NewDoc(2, 1, 2)}

\* ---------------------------------------------------------------- actions

\* The caller creates a document and sets its ids.
NewDocument(t) ==
    /\ pc[t] = "idle" /\ ncalls = 0
    /\ \E default_language \in Languages :
          document' = [document EXCEPT ![t] =
              with_document_id(with_collection(with_account_id(
                  with_default_language(default_language), 1), 1), 1)]
    /\ pc' = [pc EXCEPT ![t] = "build"]
    /\ UNCHANGED <<store, args, keys, batches, result, hist, ncalls, postings, wire, parser>>

AddText(t) ==
    /\ pc[t] = "build" /\ Len(document[t].parts) < MaxParts
    /\ \E in \in TextInputs :
          document' = [document EXCEPT ![t] = index(@, in[1], in[2], in[3])]
    /\ UNCHANGED <<store, pc, args, keys, batches, result, hist, ncalls, postings, wire, parser>>

AddTokenized(t) ==
    /\ pc[t] = "build" /\ Len(document[t].parts) < MaxParts
    /\ \E in \in TokenizeInputs :
          document' = [document EXCEPT ![t] = index_tokenized(@, in[1], in[2])]
    /\ UNCHANGED <<store, pc, args, keys, batches, result, hist, ncalls, postings, wire, parser>>

AddKeyword(t) ==
    /\ pc[t] = "build" /\ Len(document[t].parts) < MaxParts
    /\ \E in \in KeywordInputs :
          document' = [document EXCEPT ![t] = index_keyword(@, in[1], in[2])]
    /\ UNCHANGED <<store, pc, args, keys, batches, result, hist, ncalls, postings, wire, parser>>

\* Store::fts_index(d), up to its first write or, with no token, its return.
IndexStart(t, d) ==
    /\ ncalls < MaxCalls
    /\ \E det \in DetectOutcomes(d), mfl \in MostFrequentOutcomes(d) :
          LET acc == BuildPostings(d, det, mfl)
          IN  /\ hist' = [hist EXCEPT ![t] =
                            [call |-> "fts_index", before |-> store, writes |-> <<>>,
                             tokens |-> DOMAIN acc.tokens,
                             inserts |-> acc.inserts, stems |-> acc.stems,
                             det |-> det, mfl |-> mfl, langs |-> acc.langs,
                             iterated |-> FALSE, scanned |-> <<>>, seen |-> NoHist.seen]]
              /\ IF DOMAIN acc.tokens = {}
                 THEN /\ pc' = [pc EXCEPT ![t] = "done"]
                      /\ result' = [result EXCEPT ![t] = "Ok"]
                      /\ keys' = [keys EXCEPT ![t] = {}]
                 ELSE /\ pc' = [pc EXCEPT ![t] = "index"]
                      /\ result' = [result EXCEPT ![t] = "none"]
                      /\ keys' = [keys EXCEPT ![t] = SerializeKeys(acc.tokens)]
    /\ document' = [document EXCEPT ![t] = d]
    /\ ncalls' = ncalls + 1
    /\ UNCHANGED <<store, args, batches, postings, wire, parser>>

\* fts_index of the document the task has built.
fts_index_built(t) ==
    /\ pc[t] = "build"
    /\ IndexStart(t, document[t])

\* fts_index of one of the sample documents.
fts_index(t) ==
    /\ pc[t] = "idle"
    /\ \E d \in SampleDocuments : IndexStart(t, d)

\* Faulty variant of IndexWriteOk: the batch is applied to the store as it was
\* when the call began, so what other callers wrote since then is lost.
IndexWriteOk_Stale(t) ==
    /\ pc[t] = "index"
    /\ \E sq \in NextKeys(document[t], keys[t]) :
          LET batch == NextBatch(document[t], keys[t], sq)
              left  == keys[t] \ Range(ValueOps(batch))
          IN  /\ store' = Write(WriteAll(hist[t].before, hist[t].writes), batch)
              /\ keys' = [keys EXCEPT ![t] = left]
              /\ hist' = [hist EXCEPT ![t].writes = Append(@, batch)]
              /\ pc' = [pc EXCEPT ![t] = IF left = {} THEN "done" ELSE "index"]
              /\ result' = [result EXCEPT ![t] = IF left = {} THEN "Ok" ELSE "none"]
    /\ UNCHANGED <<document, args, batches, ncalls, postings, wire, parser>>

\* Faulty variant of IndexWriteOk: the write first drops the entries the
\* document had that are not among the tokens of this call.
IndexWriteOk_Replace(t) ==
    /\ pc[t] = "index"
    /\ \E sq \in NextKeys(document[t], keys[t]) :
          LET batch == NextBatch(document[t], keys[t], sq)
              left  == keys[t] \ Range(ValueOps(batch))
              own   == {ValueKey(document[t].account_id, document[t].collection,
                                 document[t].document_id, hash) : hash \in hist[t].tokens}
              kept  == {k \in DOMAIN store :
                           \/ k \in own
                           \/ k.collection # document[t].collection
                           \/ DeserializeBeU32(k.key, 0) # document[t].account_id
                           \/ DeserializeBeU32(k.key, Len(k.key) - U32_LEN)
                                 # document[t].document_id}
          IN  /\ store' = Write([k \in kept |-> store[k]], batch)
              /\ keys' = [keys EXCEPT ![t] = left]
              /\ hist' = [hist EXCEPT ![t].writes = Append(@, batch)]
              /\ pc' = [pc EXCEPT ![t] = IF left = {} THEN "done" ELSE "index"]
              /\ result' = [result EXCEPT ![t] = IF left = {} THEN "Ok" ELSE "none"]
    /\ UNCHANGED <<document, args, batches, ncalls, postings, wire, parser>>

\* self.write(batch.build()) of fts_index succeeds; the loop goes on to the
\* next write or to the return.
IndexWriteOk(t) ==
    /\ pc[t] = "index"
    /\ \E sq \in NextKeys(document[t], keys[t]) :
          LET batch == NextBatch(document[t], keys[t], sq)
              left  == keys[t] \ Range(ValueOps(batch))
          IN  /\ store' = Write(store, batch)
              /\ keys' = [keys EXCEPT ![t] = left]
              /\ hist' = [hist EXCEPT ![t].writes = Append(@, batch)]
              /\ pc' = [pc EXCEPT ![t] = IF left = {} THEN "done" ELSE "index"]
              /\ result' = [result EXCEPT ![t] = IF left = {} THEN "Ok" ELSE "none"]
    /\ UNCHANGED <<document, args, batches, ncalls, postings, wire, parser>>

\* Faulty variant of IndexWriteErr: the batches written before the failure
\* are undone.
IndexWriteErr_Rollback(t) ==
    /\ pc[t] = "index"
    /\ pc' = [pc EXCEPT ![t] = "done"]
    /\ result' = [result EXCEPT ![t] = "Err"]
    /\ store' = hist[t].before
    /\ UNCHANGED <<document, args, keys, batches, hist, ncalls, postings, wire, parser>>

\* self.write(batch.build()) of fts_index fails: `?` returns the error.
IndexWriteErr(t) ==
    /\ pc[t] = "index"
    /\ pc' = [pc EXCEPT ![t] = "done"]
    /\ result' = [result EXCEPT ![t] = "Err"]
    /\ UNCHANGED <<store, document, args, keys, batches, hist, ncalls, postings, wire, parser>>

\* Store::fts_remove(account_id, collection, document_ids), up to iterate.
fts_remove(t) ==
    /\ pc[t] = "idle" /\ ncalls < MaxCalls
    /\ \E account_id \in Accounts, collection \in Collections,
          document_ids \in SUBSET DocumentIds :
          args' = [args EXCEPT ![t] = [account_id |-> account_id, collection |-> collection,
                                       document_ids |-> document_ids]]
    /\ pc' = [pc EXCEPT ![t] = "scan"]
    /\ result' = [result EXCEPT ![t] = "none"]
    /\ hist' = [hist EXCEPT ![t] = [NoHist EXCEPT !.call = "fts_remove", !.before = store]]
    /\ ncalls' = ncalls + 1
    /\ UNCHANGED <<store, document, keys, batches, postings, wire, parser>>

\* self.iterate(...) runs the visitor over the keys of the range; the
\* visitor's error ends fts_remove, otherwise the loop over delete_keys
\* runs to its first write or to the return.
RemoveScan(t) ==
    /\ pc[t] = "scan"
    /\ LET found == Scan(store, args[t].account_id, args[t].document_ids)
       IN  IF found[1] = "Err"
           THEN /\ pc' = [pc EXCEPT ![t] = "done"]
                /\ result' = [result EXCEPT ![t] = "Err"]
                /\ UNCHANGED batches
           ELSE \E order \in Orderings(DOMAIN found[2]) :
                   LET todo == RemoveCommit(args[t].account_id, args[t].collection,
                                            found[2], order,
                                            RemoveBatch(args[t].account_id, args[t].collection),
                                            <<>>)
                   IN  /\ batches' = [batches EXCEPT ![t] = todo]
                       /\ pc' = [pc EXCEPT ![t] = IF todo = <<>> THEN "done" ELSE "remove"]
                       /\ result' = [result EXCEPT ![t] = IF todo = <<>> THEN "Ok" ELSE "none"]
    /\ hist' = [hist EXCEPT ![t].iterated = TRUE,
                            ![t].scanned = store,
                            ![t].seen = [u \in Tasks |-> Len(hist[u].writes)]]
    /\ UNCHANGED <<store, document, args, keys, ncalls, postings, wire, parser>>

\* self.iterate(...) fails in the store.
RemoveScanErr(t) ==
    /\ pc[t] = "scan"
    /\ pc' = [pc EXCEPT ![t] = "done"]
    /\ result' = [result EXCEPT ![t] = "Err"]
    /\ UNCHANGED <<store, document, args, keys, batches, hist, ncalls, postings, wire, parser>>

\* Faulty variant of RemoveWriteOk: the write also deletes every entry the
\* arguments of the call cover, whether the scan saw it or not.
RemoveWriteOk_Covering(t) ==
    /\ pc[t] = "remove"
    /\ store' = LET st == Write(store, Head(batches[t]))
                IN  [k \in {e \in DOMAIN st :
                               ~ /\ e.collection = args[t].collection
                                 /\ DeserializeBeU32(e.key, 0) = args[t].account_id
                                 /\ DeserializeBeU32(e.key, Len(e.key) - U32_LEN)
                                        \in args[t].document_ids}
                        |-> st[k]]
    /\ batches' = [batches EXCEPT ![t] = Tail(@)]
    /\ hist' = [hist EXCEPT ![t].writes = Append(@, Head(batches[t]))]
    /\ pc' = [pc EXCEPT ![t] = IF Tail(batches[t]) = <<>> THEN "done" ELSE "remove"]
    /\ result' = [result EXCEPT ![t] = IF Tail(batches[t]) = <<>> THEN "Ok" ELSE "none"]
    /\ UNCHANGED <<document, args, keys, ncalls, postings, wire, parser>>

\* self.write(batch.build()) of fts_remove succeeds.
RemoveWriteOk(t) ==
    /\ pc[t] = "remove"
    /\ store' = Write(store, Head(batches[t]))
    /\ batches' = [batches EXCEPT ![t] = Tail(@)]
    /\ hist' = [hist EXCEPT ![t].writes = Append(@, Head(batches[t]))]
    /\ pc' = [pc EXCEPT ![t] = IF Tail(batches[t]) = <<>> THEN "done" ELSE "remove"]
    /\ result' = [result EXCEPT ![t] = IF Tail(batches[t]) = <<>> THEN "Ok" ELSE "none"]
    /\ UNCHANGED <<document, args, keys, ncalls, postings, wire, parser>>

\* self.write(batch.build()) of fts_remove fails.
RemoveWriteErr(t) ==
    /\ pc[t] = "remove"
    /\ pc' = [pc EXCEPT ![t] = "done"]
    /\ result' = [result EXCEPT ![t] = "Err"]
    /\ UNCHANGED <<store, document, args, keys, batches, hist, ncalls, postings, wire, parser>>

\* Faulty variant of fts_remove_all: the entries of the account are deleted.
fts_remove_all_Wipe(t) ==
    /\ pc[t] = "idle" /\ ncalls < MaxCalls
    /\ \E account_id \in Accounts :
          /\ args' = [args EXCEPT ![t] = [NoArgs EXCEPT !.account_id = account_id]]
          /\ store' = [k \in {e \in DOMAIN store : DeserializeBeU32(e.key, 0) # account_id}
                          |-> store[k]]
    /\ pc' = [pc EXCEPT ![t] = "done"]
    /\ result' = [result EXCEPT ![t] = "Ok"]
    /\ hist' = [hist EXCEPT ![t] = [NoHist EXCEPT !.call = "fts_remove_all", !.before = store]]
    /\ ncalls' = ncalls + 1
    /\ UNCHANGED <<document, keys, batches, postings, wire, parser>>

\* Store::fts_remove_all(_): a no-op, whatever the account id it is given.
fts_remove_all(t) ==
    /\ pc[t] = "idle" /\ ncalls < MaxCalls
    /\ \E account_id \in Accounts :
          args' = [args EXCEPT ![t] = [NoArgs EXCEPT !.account_id = account_id]]
    /\ pc' = [pc EXCEPT ![t] = "done"]
    /\ result' = [result EXCEPT ![t] = "Ok"]
    /\ hist' = [hist EXCEPT ![t] = [NoHist EXCEPT !.call = "fts_remove_all", !.before = store]]
    /\ ncalls' = ncalls + 1
    /\ UNCHANGED <<store, document, keys, batches, postings, wire, parser>>

\* The call has returned; the task is free for its next call.
Return(t) ==
    /\ pc[t] = "done"
    /\ pc' = [pc EXCEPT ![t] = "idle"]
    /\ document' = [document EXCEPT ![t] = NoDocument]
    /\ args' = [args EXCEPT ![t] = NoArgs]
    /\ keys' = [keys EXCEPT ![t] = {}]
    /\ batches' = [batches EXCEPT ![t] = <<>>]
    /\ result' = [result EXCEPT ![t] = "none"]
    /\ hist' = [hist EXCEPT ![t] = NoHist]
    /\ UNCHANGED <<store, ncalls, postings, wire, parser>>

\* One caller making its calls one after the other on the sample documents.
Next ==
    \/ fts_index(1)
    \/ IndexWriteOk(1)
    \/ IndexWriteErr(1)
    \/ fts_remove(1)
    \/ RemoveScan(1)
    \/ RemoveScanErr(1)
    \/ RemoveWriteOk(1)
    \/ RemoveWriteErr(1)
    \/ fts_remove_all(1)
    \/ Return(1)

Spec == Init /\ [][Next]_vars

\* One caller building one document part by part and indexing it into the
\* empty store.
NextPipeline ==
    \/ NewDocument(1)
    \/ AddText(1)
    \/ AddTokenized(1)
    \/ AddKeyword(1)
    \/ fts_index_built(1)
    \/ IndexWriteOk(1)
    \/ IndexWriteErr(1)

SpecPipeline == Init /\ [][NextPipeline]_vars

\* The fields of the documented domain: Header(h) with h < 253.
DocumentedFields == {Body, Attachment, Keyword} \cup {Header(h) : h \in 0..252}

\* The caller creates a document with one tokenized part of a field of the
\* documented domain.
FieldDocument(t) ==
    /\ pc[t] = "idle" /\ ncalls = 0
    /\ \E field \in DocumentedFields, text \in {T_fox, T_foxes_a} :
          document' = [document EXCEPT ![t] = index_tokenized(NewDoc(1, 1, 1), field, text)]
    /\ pc' = [pc EXCEPT ![t] = "build"]
    /\ UNCHANGED <<store, args, keys, batches, result, hist, ncalls, postings, wire, parser>>

\* One caller indexing a document whose part has any field of the
\* documented domain.
NextField ==
    \/ FieldDocument(1)
    \/ fts_index_built(1)
    \/ IndexWriteOk(1)
    \/ IndexWriteErr(1)

SpecField == Init /\ [][NextField]_vars

\* Keywords of every length class of the posting key: 1, 2 (with a zero
\* byte), 7, 8 and more than 8 bytes; the digest of W_digest7 ends in the
\* byte 7 and begins with the bytes of W_seven.
W_a_nul   == <<97, 0>>
W_seven   == <<97, 111, 111, 111, 111, 111, 111>>
W_digest7 == <<33, 111, 111, 111, 111, 111, 111, 7, 98>>

KeyTokens == {W_a, W_a_nul, W_letters, W_seven, W_incoming, W_digest7, W_attachment}

\* The caller creates a document of one or two keyword parts.
KeywordDocument(t) ==
    /\ pc[t] = "idle" /\ ncalls = 0
    /\ \/ \E first \in KeyTokens :
             document' = [document EXCEPT ![t] = index_keyword(NewDoc(1, 1, 1), Body, first)]
       \/ \E first, second \in KeyTokens :
             /\ first # second
             /\ document' = [document EXCEPT ![t] =
                    index_keyword(index_keyword(NewDoc(1, 1, 1), Body, first),
                                  Attachment, second)]
    /\ pc' = [pc EXCEPT ![t] = "build"]
    /\ UNCHANGED <<store, args, keys, batches, result, hist, ncalls, postings, wire, parser>>

\* One caller indexing a document of keywords.
NextKeywords ==
    \/ KeywordDocument(1)
    \/ fts_index_built(1)
    \/ IndexWriteOk(1)
    \/ IndexWriteErr(1)

SpecKeys == Init /\ [][NextKeywords]_vars

\* The token types and positions the callers of the Postings API use.
PostingTypes == {TokenTypeWord(0), TokenTypeWord(1), TokenTypeStemmed(0)}

\* p.insert(token_type, position), the position above every earlier one.
insert(t) ==
    /\ postings[t].bytes = None
    /\ \E token_type \in PostingTypes, position \in (postings[t].last + 1)..MaxPosition :
          postings' = [postings EXCEPT ![t].p = PostingsInsert(@, token_type, position),
                                       ![t].last = position]
    /\ UNCHANGED <<store, pc, document, args, keys, batches, result, hist, ncalls, wire, parser>>

\* p.insert_keyword(token_type)
insert_keyword(t) ==
    /\ postings[t].bytes = None
    /\ \E token_type \in PostingTypes :
          postings' = [postings EXCEPT ![t].p = PostingsInsertKeyword(@, token_type)]
    /\ UNCHANGED <<store, pc, document, args, keys, batches, result, hist, ncalls, wire, parser>>

\* p.serialize()
serialize(t) ==
    /\ postings[t].bytes = None
    /\ postings' = [postings EXCEPT ![t].bytes = Some(PostingsSerialize(postings[t].p))]
    /\ UNCHANGED <<store, pc, document, args, keys, batches, result, hist, ncalls, wire, parser>>

\* Postings::deserialize(bytes)
deserialize(t) ==
    /\ postings[t].bytes # None /\ postings[t].back = None
    /\ postings' = [postings EXCEPT ![t].back = Some(PostingsDeserialize(postings[t].bytes[2]))]
    /\ UNCHANGED <<store, pc, document, args, keys, batches, result, hist, ncalls, wire, parser>>

\* One caller building a Postings by inserts in any order, then encoding
\* and decoding it.
NextPostings ==
    \/ insert(1)
    \/ insert_keyword(1)
    \/ serialize(1)
    \/ deserialize(1)

SpecPostings == Init /\ [][NextPostings]_vars

\* Two callers, each indexing one of the sample documents; their calls
\* suspend at every write, so the writes of the two interleave freely.
NextConcurrent ==
    \/ fts_index(1)
    \/ fts_index(2)
    \/ IndexWriteOk(1)
    \/ IndexWriteOk(2)
    \/ IndexWriteErr(1)
    \/ IndexWriteErr(2)

SpecConcurrent == Init /\ [][NextConcurrent]_vars

\* Parts with words longer than MAX_TOKEN_LENGTH, of each type, and parts of
\* empty text.
OversizeParts ==
    {[field |-> Body, text |-> T_empty, typ |-> TypeTokenize],
     [field |-> Body, text |-> T_long, typ |-> TypeTokenize],
     [field |-> Header(0), text |-> W_oversized, typ |-> TypeText(English)],
     [field |-> Body, text |-> T_foxes_a, typ |-> TypeText(English)],
     [field |-> Keyword, text |-> W_oversized, typ |-> TypeKeyword]}

\* builder.index / index_tokenized / index_keyword, by the type of the part.
AddPart(self, part) ==
    CASE part.typ[1] = "Text"     -> index(self, part.field, part.text, part.typ[2])
      [] part.typ[1] = "Tokenize" -> index_tokenized(self, part.field, part.text)
      [] part.typ[1] = "Keyword"  -> index_keyword(self, part.field, part.text)

\* The builder calls for the parts of a sequence, in order.
RECURSIVE AddParts(_, _)
AddParts(self, parts) ==
    IF parts = <<>> THEN self ELSE AddParts(AddPart(self, Head(parts)), Tail(parts))

\* The caller creates a document of up to MaxSampleParts parts, some with
\* oversized words, some with no word.
OversizeDocument(t) ==
    /\ pc[t] = "idle" /\ ncalls = 0
    /\ \E n \in 1..MaxSampleParts :
          \E parts \in [1..n -> OversizeParts] :
              document' = [document EXCEPT ![t] = AddParts(NewDoc(1, 1, 1), parts)]
    /\ pc' = [pc EXCEPT ![t] = "build"]
    /\ UNCHANGED <<store, args, keys, batches, result, hist, ncalls, postings, wire, parser>>

\* One caller indexing a document with oversized words.
NextOversize ==
    \/ OversizeDocument(1)
    \/ fts_index_built(1)
    \/ IndexWriteOk(1)
    \/ IndexWriteErr(1)

SpecOversize == Init /\ [][NextOversize]_vars

\* Texts in which a word occurs more than once.
T_fox_fox     == W_fox \o <<Space>> \o W_fox
T_a_fox_a     == W_a \o <<Space>> \o W_fox \o <<Space>> \o W_a
T_foxes_foxes == W_foxes \o <<Space>> \o W_foxes
T_fox_foxes   == W_fox \o <<Space>> \o W_foxes

\* Parts that repeat a token: within a part, across parts and fields, as a
\* word and as the root of another word, and as a keyword.
RepeatParts ==
    {[field |-> Body, text |-> T_fox_fox, typ |-> TypeTokenize],
     [field |-> Header(0), text |-> T_a_fox_a, typ |-> TypeTokenize],
     [field |-> Body, text |-> T_foxes_foxes, typ |-> TypeText(English)],
     [field |-> Header(0), text |-> T_fox_foxes, typ |-> TypeText(English)],
     [field |-> Keyword, text |-> T_fox, typ |-> TypeKeyword],
     [field |-> Body, text |-> T_fox, typ |-> TypeTokenize]}

\* The caller creates a document of up to MaxSampleParts parts that repeat a
\* token.
RepeatDocument(t) ==
    /\ pc[t] = "idle" /\ ncalls = 0
    /\ \E n \in 1..MaxSampleParts :
          \E parts \in [1..n -> RepeatParts] :
              document' = [document EXCEPT ![t] = AddParts(NewDoc(1, 1, 1), parts)]
    /\ pc' = [pc EXCEPT ![t] = "build"]
    /\ UNCHANGED <<store, args, keys, batches, result, hist, ncalls, postings, wire, parser>>

\* One caller indexing a document with repeated tokens.
NextRepeats ==
    \/ RepeatDocument(1)
    \/ fts_index_built(1)
    \/ IndexWriteOk(1)
    \/ IndexWriteErr(1)

SpecRepeats == Init /\ [][NextRepeats]_vars

\* Fields inside and outside the documented domain of header ids.
AliasFields == {Body, Attachment, Keyword, Header(252), Header(253), Header(254), Header(255)}

\* The parts a caller of SpecAlias appends: the word "fox" under any of
\* these fields, as a part of any type.
AliasParts ==
    {[field |-> field, text |-> T_fox, typ |-> typ] :
        field \in AliasFields, typ \in {TypeTokenize, TypeKeyword, TypeText(English)}}

\* The caller creates a document of up to MaxParts such parts.
AliasDocument(t) ==
    /\ pc[t] = "idle" /\ ncalls = 0
    /\ \E n \in 1..MaxParts :
          \E parts \in [1..n -> AliasParts] :
              document' = [document EXCEPT ![t] = AddParts(NewDoc(1, 1, 1), parts)]
    /\ pc' = [pc EXCEPT ![t] = "build"]
    /\ UNCHANGED <<store, args, keys, batches, result, hist, ncalls, postings, wire, parser>>

\* `3 + value.into()` leaves the range of u8 for a field of d.
Overflows(d) ==
    \E i \in DOMAIN d.parts :
        d.parts[i].field[1] = "Header" /\ 3 + d.parts[i].field[2] > 255

\* fts_index of the built document in a build with overflow checks, when a
\* field id overflows: the addition panics while the postings are built,
\* before any write, and the call never returns. (Without overflow checks
\* the addition wraps and the call goes on as fts_index_built.)
fts_index_overflow(t) ==
    /\ pc[t] = "build" /\ ncalls < MaxCalls
    /\ Overflows(document[t])
    /\ pc' = [pc EXCEPT ![t] = "panicked"]
    /\ hist' = [hist EXCEPT ![t] = [NoHist EXCEPT !.call = "fts_index", !.before = store]]
    /\ ncalls' = ncalls + 1
    /\ UNCHANGED <<store, document, args, keys, batches, result, postings, wire, parser>>

\* One caller indexing a document whose fields may lie outside the
\* documented domain, in a build with or without overflow checks.
NextAlias ==
    \/ AliasDocument(1)
    \/ fts_index_built(1)
    \/ fts_index_overflow(1)
    \/ IndexWriteOk(1)
    \/ IndexWriteErr(1)

SpecAlias == Init /\ [][NextAlias]_vars

\* The documents the callers of SpecRace index: one of three tokens, which
\* takes two writes, and one of another collection with the same ids.
RaceDocuments ==
    {index_tokenized(index_tokenized(NewDoc(1, 0, 1), Body, T_foxes_a), Header(0), T_letters),
     index_tokenized(NewDoc(1, 1, 1), Body, W_a)}

\* fts_index of one of these documents.
fts_index_race(t) ==
    /\ pc[t] = "idle"
    /\ \E d \in RaceDocuments : IndexStart(t, d)

\* Task 1 indexes one document while task 2 makes its calls one after the
\* other, removals among them: the writes and the scan of the two tasks
\* interleave in every way.
NextRace ==
    \/ fts_index_race(1)
    \/ IndexWriteOk(1)
    \/ IndexWriteErr(1)
    \/ fts_index_race(2)
    \/ IndexWriteOk(2)
    \/ IndexWriteErr(2)
    \/ fts_remove(2)
    \/ RemoveScan(2)
    \/ RemoveScanErr(2)
    \/ RemoveWriteOk(2)
    \/ RemoveWriteErr(2)
    \/ Return(2)

SpecRace == Init /\ [][NextRace]_vars

\* The two largest account ids.
WideAccounts == {U32_MAX - 1, U32_MAX}

\* The documents the callers of SpecWide index: the word "fox" under
\* documents 1 and 2 of these accounts.
WideDocuments ==
    {index_tokenized(NewDoc(account_id, 0, document_id), Body, T_fox) :
        account_id \in WideAccounts, document_id \in DocumentIds}

\* fts_index of one of these documents.
fts_index_wide(t) ==
    /\ pc[t] = "idle"
    /\ \E d \in WideDocuments : IndexStart(t, d)

\* Store::fts_remove for one of these accounts, up to iterate.
fts_remove_wide(t) ==
    /\ pc[t] = "idle" /\ ncalls < MaxCalls
    /\ \E account_id \in WideAccounts, document_ids \in SUBSET DocumentIds :
          args' = [args EXCEPT ![t] = [account_id |-> account_id, collection |-> 0,
                                       document_ids |-> document_ids]]
    /\ pc' = [pc EXCEPT ![t] = "scan"]
    /\ result' = [result EXCEPT ![t] = "none"]
    /\ hist' = [hist EXCEPT ![t] = [NoHist EXCEPT !.call = "fts_remove", !.before = store]]
    /\ ncalls' = ncalls + 1
    /\ UNCHANGED <<store, document, keys, batches, postings, wire, parser>>

\* Store::fts_remove in a build with overflow checks, when account_id + 1
\* leaves the range of u32: the addition panics while the parameters of
\* iterate are built, and the call never returns. (Without overflow checks
\* the addition wraps and the call goes on as fts_remove_wide.)
fts_remove_overflow(t) ==
    /\ pc[t] = "idle" /\ ncalls < MaxCalls
    /\ \E account_id \in WideAccounts, document_ids \in SUBSET DocumentIds :
          /\ account_id = U32_MAX
          /\ args' = [args EXCEPT ![t] = [account_id |-> account_id, collection |-> 0,
                                          document_ids |-> document_ids]]
    /\ pc' = [pc EXCEPT ![t] = "panicked"]
    /\ result' = [result EXCEPT ![t] = "none"]
    /\ hist' = [hist EXCEPT ![t] = [NoHist EXCEPT !.call = "fts_remove", !.before = store]]
    /\ ncalls' = ncalls + 1
    /\ UNCHANGED <<store, document, keys, batches, postings, wire, parser>>

\* One caller indexing and removing documents of the two largest accounts,
\* in a build with or without overflow checks.
NextWide ==
    \/ fts_index_wide(1)
    \/ IndexWriteOk(1)
    \/ IndexWriteErr(1)
    \/ fts_remove_wide(1)
    \/ fts_remove_overflow(1)
    \/ RemoveScan(1)
    \/ RemoveScanErr(1)
    \/ RemoveWriteOk(1)
    \/ RemoveWriteErr(1)
    \/ Return(1)

SpecWide == Init /\ [][NextWide]_vars

\* ------------------------------------------- Property and its one-byte code

\* enum Property: the names of its variants, in the order of the declaration.
\* A Property is <<name>>, <<"Header", HeaderProperty>> or <<"_T", String>>.
PropertyVariants ==
    <<"Acl", "Aliases", "Attachments", "Bcc", "BlobId", "BodyStructure",
      "BodyValues", "Capabilities", "Cc", "Charset", "Cid", "DeliveryStatus",
      "Description", "DeviceClientId", "Disposition", "DsnBlobIds", "Email",
      "EmailId", "EmailIds", "Envelope", "Expires", "From", "FromDate",
      "HasAttachment", "Header", "Headers", "HtmlBody", "HtmlSignature",
      "Id", "IdentityId", "InReplyTo", "IsActive", "IsEnabled",
      "IsSubscribed", "Keys", "Keywords", "Language", "Location",
      "MailboxIds", "MayDelete", "MdnBlobIds", "Members", "MessageId",
      "MyRights", "Name", "ParentId", "PartId", "Picture", "Preview",
      "Quota", "ReceivedAt", "References", "ReplyTo", "Role", "Secret",
      "SendAt", "Sender", "SentAt", "Size", "SortOrder", "Subject",
      "SubParts", "TextBody", "TextSignature", "ThreadId", "Timezone", "To",
      "ToDate", "TotalEmails", "TotalThreads", "Type", "Types", "UndoStatus",
      "UnreadEmails", "UnreadThreads", "Url", "VerificationCode",
      "Addresses", "P256dh", "Auth", "Value", "SmtpReply", "Delivered",
      "Displayed", "MailFrom", "RcptTo", "Parameters", "IsEncodingProblem",
      "IsTruncated", "MayReadItems", "MayAddItems", "MayRemoveItems",
      "MaySetSeen", "MaySetKeywords", "MayCreateChild", "MayRename",
      "MaySubmit", "_T">>

\* HeaderProperty { form: HeaderForm::Raw, header: String::new(), all: false }
EmptyHeaderProperty == [form |-> "Raw", header |-> "", all |-> FALSE]

\* The payloads the callers of SpecProperty give Header and _T.
HeaderProperties == {EmptyHeaderProperty, [form |-> "Text", header |-> "Subject", all |-> TRUE]}
OtherProperties  == {"", "custom"}

\* Every variant, Header and _T with each of these payloads.
Properties ==
    {<<PropertyVariants[i]>> :
        i \in {j \in DOMAIN PropertyVariants : PropertyVariants[j] \notin {"Header", "_T"}}}
        \cup {<<"Header", h>> : h \in HeaderProperties}
        \cup {<<"_T", s>> : s \in OtherProperties}

\* Faulty variant of PropertyToU8: the codes follow the order of the enum
\* where the table departs from it (Parameters and Addresses).
PropertyToU8_EnumOrder(value) ==
    CASE value[1] = "IsActive" -> 0
      [] value[1] = "IsEnabled" -> 1
      [] value[1] = "IsSubscribed" -> 2
      [] value[1] = "Keys" -> 3
      [] value[1] = "Keywords" -> 4
      [] value[1] = "Language" -> 5
      [] value[1] = "Location" -> 6
      [] value[1] = "MailboxIds" -> 7
      [] value[1] = "MayDelete" -> 8
      [] value[1] = "MdnBlobIds" -> 9
      [] value[1] = "Members" -> 10
      [] value[1] = "MessageId" -> 11
      [] value[1] = "MyRights" -> 12
      [] value[1] = "Name" -> 13
      [] value[1] = "ParentId" -> 14
      [] value[1] = "PartId" -> 15
      [] value[1] = "Picture" -> 16
      [] value[1] = "Preview" -> 17
      [] value[1] = "Quota" -> 18
      [] value[1] = "ReceivedAt" -> 19
      [] value[1] = "References" -> 20
      [] value[1] = "ReplyTo" -> 21
      [] value[1] = "Role" -> 22
      [] value[1] = "Secret" -> 23
      [] value[1] = "SendAt" -> 24
      [] value[1] = "Sender" -> 25
      [] value[1] = "SentAt" -> 26
      [] value[1] = "Size" -> 27
      [] value[1] = "SortOrder" -> 28
      [] value[1] = "Subject" -> 29
      [] value[1] = "SubParts" -> 30
      [] value[1] = "TextBody" -> 31
      [] value[1] = "TextSignature" -> 32
      [] value[1] = "ThreadId" -> 33
      [] value[1] = "Timezone" -> 34
      [] value[1] = "To" -> 35
      [] value[1] = "ToDate" -> 36
      [] value[1] = "TotalEmails" -> 37
      [] value[1] = "TotalThreads" -> 38
      [] value[1] = "Type" -> 39
      [] value[1] = "Types" -> 40
      [] value[1] = "UndoStatus" -> 41
      [] value[1] = "UnreadEmails" -> 42
      [] value[1] = "UnreadThreads" -> 43
      [] value[1] = "Url" -> 44
      [] value[1] = "VerificationCode" -> 45
      [] value[1] = "Parameters" -> 47
      [] value[1] = "Addresses" -> 46
      [] value[1] = "P256dh" -> 48
      [] value[1] = "Auth" -> 49
      [] value[1] = "Value" -> 50
      [] value[1] = "SmtpReply" -> 51
      [] value[1] = "Delivered" -> 52
      [] value[1] = "Displayed" -> 53
      [] value[1] = "MailFrom" -> 54
      [] value[1] = "RcptTo" -> 55
      [] value[1] = "IsEncodingProblem" -> 56
      [] value[1] = "IsTruncated" -> 57
      [] value[1] = "MayReadItems" -> 58
      [] value[1] = "MayAddItems" -> 59
      [] value[1] = "MayRemoveItems" -> 60
      [] value[1] = "MaySetSeen" -> 61
      [] value[1] = "MaySetKeywords" -> 62
      [] value[1] = "MayCreateChild" -> 63
      [] value[1] = "MayRename" -> 64
      [] value[1] = "MaySubmit" -> 65
      [] value[1] = "Acl" -> 66
      [] value[1] = "Aliases" -> 67
      [] value[1] = "Attachments" -> 68
      [] value[1] = "Bcc" -> 69
      [] value[1] = "BlobId" -> 70
      [] value[1] = "BodyStructure" -> 71
      [] value[1] = "BodyValues" -> 72
      [] value[1] = "Capabilities" -> 73
      [] value[1] = "Cc" -> 74
      [] value[1] = "Charset" -> 75
      [] value[1] = "Cid" -> 76
      [] value[1] = "DeliveryStatus" -> 77
      [] value[1] = "Description" -> 78
      [] value[1] = "DeviceClientId" -> 79
      [] value[1] = "Disposition" -> 80
      [] value[1] = "DsnBlobIds" -> 81
      [] value[1] = "Email" -> 82
      [] value[1] = "EmailId" -> 83
      [] value[1] = "EmailIds" -> 84
      [] value[1] = "Envelope" -> 85
      [] value[1] = "Expires" -> 86
      [] value[1] = "From" -> 87
      [] value[1] = "FromDate" -> 88
      [] value[1] = "HasAttachment" -> 89
      [] value[1] = "Header" -> 90
      [] value[1] = "Headers" -> 91
      [] value[1] = "HtmlBody" -> 92
      [] value[1] = "HtmlSignature" -> 93
      [] value[1] = "Id" -> 94
      [] value[1] = "IdentityId" -> 95
      [] value[1] = "InReplyTo" -> 96
      [] value[1] = "_T" -> 97

\* impl From<Property> for u8
PropertyToU8(value) ==
    CASE value[1] = "IsActive" -> 0
      [] value[1] = "IsEnabled" -> 1
      [] value[1] = "IsSubscribed" -> 2
      [] value[1] = "Keys" -> 3
      [] value[1] = "Keywords" -> 4
      [] value[1] = "Language" -> 5
      [] value[1] = "Location" -> 6
      [] value[1] = "MailboxIds" -> 7
      [] value[1] = "MayDelete" -> 8
      [] value[1] = "MdnBlobIds" -> 9
      [] value[1] = "Members" -> 10
      [] value[1] = "MessageId" -> 11
      [] value[1] = "MyRights" -> 12
      [] value[1] = "Name" -> 13
      [] value[1] = "ParentId" -> 14
      [] value[1] = "PartId" -> 15
      [] value[1] = "Picture" -> 16
      [] value[1] = "Preview" -> 17
      [] value[1] = "Quota" -> 18
      [] value[1] = "ReceivedAt" -> 19
      [] value[1] = "References" -> 20
      [] value[1] = "ReplyTo" -> 21
      [] value[1] = "Role" -> 22
      [] value[1] = "Secret" -> 23
      [] value[1] = "SendAt" -> 24
      [] value[1] = "Sender" -> 25
      [] value[1] = "SentAt" -> 26
      [] value[1] = "Size" -> 27
      [] value[1] = "SortOrder" -> 28
      [] value[1] = "Subject" -> 29
      [] value[1] = "SubParts" -> 30
      [] value[1] = "TextBody" -> 31
      [] value[1] = "TextSignature" -> 32
      [] value[1] = "ThreadId" -> 33
      [] value[1] = "Timezone" -> 34
      [] value[1] = "To" -> 35
      [] value[1] = "ToDate" -> 36
      [] value[1] = "TotalEmails" -> 37
      [] value[1] = "TotalThreads" -> 38
      [] value[1] = "Type" -> 39
      [] value[1] = "Types" -> 40
      [] value[1] = "UndoStatus" -> 41
      [] value[1] = "UnreadEmails" -> 42
      [] value[1] = "UnreadThreads" -> 43
      [] value[1] = "Url" -> 44
      [] value[1] = "VerificationCode" -> 45
      [] value[1] = "Parameters" -> 46
      [] value[1] = "Addresses" -> 47
      [] value[1] = "P256dh" -> 48
      [] value[1] = "Auth" -> 49
      [] value[1] = "Value" -> 50
      [] value[1] = "SmtpReply" -> 51
      [] value[1] = "Delivered" -> 52
      [] value[1] = "Displayed" -> 53
      [] value[1] = "MailFrom" -> 54
      [] value[1] = "RcptTo" -> 55
      [] value[1] = "IsEncodingProblem" -> 56
      [] value[1] = "IsTruncated" -> 57
      [] value[1] = "MayReadItems" -> 58
      [] value[1] = "MayAddItems" -> 59
      [] value[1] = "MayRemoveItems" -> 60
      [] value[1] = "MaySetSeen" -> 61
      [] value[1] = "MaySetKeywords" -> 62
      [] value[1] = "MayCreateChild" -> 63
      [] value[1] = "MayRename" -> 64
      [] value[1] = "MaySubmit" -> 65
      [] value[1] = "Acl" -> 66
      [] value[1] = "Aliases" -> 67
      [] value[1] = "Attachments" -> 68
      [] value[1] = "Bcc" -> 69
      [] value[1] = "BlobId" -> 70
      [] value[1] = "BodyStructure" -> 71
      [] value[1] = "BodyValues" -> 72
      [] value[1] = "Capabilities" -> 73
      [] value[1] = "Cc" -> 74
      [] value[1] = "Charset" -> 75
      [] value[1] = "Cid" -> 76
      [] value[1] = "DeliveryStatus" -> 77
      [] value[1] = "Description" -> 78
      [] value[1] = "DeviceClientId" -> 79
      [] value[1] = "Disposition" -> 80
      [] value[1] = "DsnBlobIds" -> 81
      [] value[1] = "Email" -> 82
      [] value[1] = "EmailId" -> 83
      [] value[1] = "EmailIds" -> 84
      [] value[1] = "Envelope" -> 85
      [] value[1] = "Expires" -> 86
      [] value[1] = "From" -> 87
      [] value[1] = "FromDate" -> 88
      [] value[1] = "HasAttachment" -> 89
      [] value[1] = "Header" -> 90
      [] value[1] = "Headers" -> 91
      [] value[1] = "HtmlBody" -> 92
      [] value[1] = "HtmlSignature" -> 93
      [] value[1] = "Id" -> 94
      [] value[1] = "IdentityId" -> 95
      [] value[1] = "InReplyTo" -> 96
      [] value[1] = "_T" -> 97

\* impl SerializeValue for Property: buf.push(self.into())
PropertySerializeValue(self, buf) == Append(buf, PropertyToU8(self))

\* impl DeserializeValue for Property: the Option returned for the bytes
\* the iterator has left; `bytes.next()?` gives None at the end of input.
PropertyDeserializeValue(bytes) ==
    IF bytes = <<>> THEN None
    ELSE
         CASE bytes[1] = 0 -> Some(<<"IsActive">>)
           [] bytes[1] = 1 -> Some(<<"IsEnabled">>)
           [] bytes[1] = 2 -> Some(<<"IsSubscribed">>)
           [] bytes[1] = 3 -> Some(<<"Keys">>)
           [] bytes[1] = 4 -> Some(<<"Keywords">>)
           [] bytes[1] = 5 -> Some(<<"Language">>)
           [] bytes[1] = 6 -> Some(<<"Location">>)
           [] bytes[1] = 7 -> Some(<<"MailboxIds">>)
           [] bytes[1] = 8 -> Some(<<"MayDelete">>)
           [] bytes[1] = 9 -> Some(<<"MdnBlobIds">>)
           [] bytes[1] = 10 -> Some(<<"Members">>)
           [] bytes[1] = 11 -> Some(<<"MessageId">>)
           [] bytes[1] = 12 -> Some(<<"MyRights">>)
           [] bytes[1] = 13 -> Some(<<"Name">>)
           [] bytes[1] = 14 -> Some(<<"ParentId">>)
           [] bytes[1] = 15 -> Some(<<"PartId">>)
           [] bytes[1] = 16 -> Some(<<"Picture">>)
           [] bytes[1] = 17 -> Some(<<"Preview">>)
           [] bytes[1] = 18 -> Some(<<"Quota">>)
           [] bytes[1] = 19 -> Some(<<"ReceivedAt">>)
           [] bytes[1] = 20 -> Some(<<"References">>)
           [] bytes[1] = 21 -> Some(<<"ReplyTo">>)
           [] bytes[1] = 22 -> Some(<<"Role">>)
           [] bytes[1] = 23 -> Some(<<"Secret">>)
           [] bytes[1] = 24 -> Some(<<"SendAt">>)
           [] bytes[1] = 25 -> Some(<<"Sender">>)
           [] bytes[1] = 26 -> Some(<<"SentAt">>)
           [] bytes[1] = 27 -> Some(<<"Size">>)
           [] bytes[1] = 28 -> Some(<<"SortOrder">>)
           [] bytes[1] = 29 -> Some(<<"Subject">>)
           [] bytes[1] = 30 -> Some(<<"SubParts">>)
           [] bytes[1] = 31 -> Some(<<"TextBody">>)
           [] bytes[1] = 32 -> Some(<<"TextSignature">>)
           [] bytes[1] = 33 -> Some(<<"ThreadId">>)
           [] bytes[1] = 34 -> Some(<<"Timezone">>)
           [] bytes[1] = 35 -> Some(<<"To">>)
           [] bytes[1] = 36 -> Some(<<"ToDate">>)
           [] bytes[1] = 37 -> Some(<<"TotalEmails">>)
           [] bytes[1] = 38 -> Some(<<"TotalThreads">>)
           [] bytes[1] = 39 -> Some(<<"Type">>)
           [] bytes[1] = 40 -> Some(<<"Types">>)
           [] bytes[1] = 41 -> Some(<<"UndoStatus">>)
           [] bytes[1] = 42 -> Some(<<"UnreadEmails">>)
           [] bytes[1] = 43 -> Some(<<"UnreadThreads">>)
           [] bytes[1] = 44 -> Some(<<"Url">>)
           [] bytes[1] = 45 -> Some(<<"VerificationCode">>)
           [] bytes[1] = 46 -> Some(<<"Parameters">>)
           [] bytes[1] = 47 -> Some(<<"Addresses">>)
           [] bytes[1] = 48 -> Some(<<"P256dh">>)
           [] bytes[1] = 49 -> Some(<<"Auth">>)
           [] bytes[1] = 50 -> Some(<<"Value">>)
           [] bytes[1] = 51 -> Some(<<"SmtpReply">>)
           [] bytes[1] = 52 -> Some(<<"Delivered">>)
           [] bytes[1] = 53 -> Some(<<"Displayed">>)
           [] bytes[1] = 54 -> Some(<<"MailFrom">>)
           [] bytes[1] = 55 -> Some(<<"RcptTo">>)
           [] bytes[1] = 56 -> Some(<<"IsEncodingProblem">>)
           [] bytes[1] = 57 -> Some(<<"IsTruncated">>)
           [] bytes[1] = 58 -> Some(<<"MayReadItems">>)
           [] bytes[1] = 59 -> Some(<<"MayAddItems">>)
           [] bytes[1] = 60 -> Some(<<"MayRemoveItems">>)
           [] bytes[1] = 61 -> Some(<<"MaySetSeen">>)
           [] bytes[1] = 62 -> Some(<<"MaySetKeywords">>)
           [] bytes[1] = 63 -> Some(<<"MayCreateChild">>)
           [] bytes[1] = 64 -> Some(<<"MayRename">>)
           [] bytes[1] = 65 -> Some(<<"MaySubmit">>)
           [] bytes[1] = 66 -> Some(<<"Acl">>)
           [] bytes[1] = 67 -> Some(<<"Aliases">>)
           [] bytes[1] = 68 -> Some(<<"Attachments">>)
           [] bytes[1] = 69 -> Some(<<"Bcc">>)
           [] bytes[1] = 70 -> Some(<<"BlobId">>)
           [] bytes[1] = 71 -> Some(<<"BodyStructure">>)
           [] bytes[1] = 72 -> Some(<<"BodyValues">>)
           [] bytes[1] = 73 -> Some(<<"Capabilities">>)
           [] bytes[1] = 74 -> Some(<<"Cc">>)
           [] bytes[1] = 75 -> Some(<<"Charset">>)
           [] bytes[1] = 76 -> Some(<<"Cid">>)
           [] bytes[1] = 77 -> Some(<<"DeliveryStatus">>)
           [] bytes[1] = 78 -> Some(<<"Description">>)
           [] bytes[1] = 79 -> Some(<<"DeviceClientId">>)
           [] bytes[1] = 80 -> Some(<<"Disposition">>)
           [] bytes[1] = 81 -> Some(<<"DsnBlobIds">>)
           [] bytes[1] = 82 -> Some(<<"Email">>)
           [] bytes[1] = 83 -> Some(<<"EmailId">>)
           [] bytes[1] = 84 -> Some(<<"EmailIds">>)
           [] bytes[1] = 85 -> Some(<<"Envelope">>)
           [] bytes[1] = 86 -> Some(<<"Expires">>)
           [] bytes[1] = 87 -> Some(<<"From">>)
           [] bytes[1] = 88 -> Some(<<"FromDate">>)
           [] bytes[1] = 89 -> Some(<<"HasAttachment">>)
           [] bytes[1] = 90 -> Some(<<"Header", EmptyHeaderProperty>>)
           [] bytes[1] = 91 -> Some(<<"Headers">>)
           [] bytes[1] = 92 -> Some(<<"HtmlBody">>)
           [] bytes[1] = 93 -> Some(<<"HtmlSignature">>)
           [] bytes[1] = 94 -> Some(<<"Id">>)
           [] bytes[1] = 95 -> Some(<<"IdentityId">>)
           [] bytes[1] = 96 -> Some(<<"InReplyTo">>)
           [] bytes[1] = 97 -> Some(<<"_T", "">>)
           [] OTHER -> None

\* The byte strings handed to deserialize_value: empty, every single byte,
\* and a byte followed by another.
ByteInputs == {<<>>} \cup {<<b>> : b \in 0..255} \cup {<<b, 7>> : b \in {0, 90, 97, 98, 255}}

\* The caller takes a Property to store.
PropertyInput(t) ==
    /\ wire[t] = NoWire
    /\ \E value \in Properties : wire' = [wire EXCEPT ![t].value = Some(value)]
    /\ UNCHANGED <<store, pc, document, args, keys, batches, result, hist, ncalls, postings, parser>>

\* value.serialize_value(&mut buf) on an empty buffer.
serialize_value(t) ==
    /\ wire[t].value # None /\ wire[t].bytes = None
    /\ wire' = [wire EXCEPT ![t].bytes = Some(PropertySerializeValue(wire[t].value[2], <<>>))]
    /\ UNCHANGED <<store, pc, document, args, keys, batches, result, hist, ncalls, postings, parser>>

\* The caller reads bytes that no serialize_value of this run wrote.
BytesInput(t) ==
    /\ wire[t] = NoWire
    /\ \E bytes \in ByteInputs : wire' = [wire EXCEPT ![t].bytes = Some(bytes)]
    /\ UNCHANGED <<store, pc, document, args, keys, batches, result, hist, ncalls, postings, parser>>

\* Property::deserialize_value(&mut bytes.iter()): the Option returned and
\* the bytes the iterator has left.
deserialize_value(t) ==
    /\ wire[t].bytes # None /\ wire[t].back = <<"NotRun">>
    /\ wire' = [wire EXCEPT ![t].back =
                   <<"Ran", PropertyDeserializeValue(wire[t].bytes[2]),
                     IF wire[t].bytes[2] = <<>> THEN <<>> ELSE Tail(wire[t].bytes[2])>>]
    /\ UNCHANGED <<store, pc, document, args, keys, batches, result, hist, ncalls, postings, parser>>

\* One caller encoding a Property and decoding it, or decoding bytes.
NextProperty ==
    \/ PropertyInput(1)
    \/ serialize_value(1)
    \/ BytesInput(1)
    \/ deserialize_value(1)

SpecProperty == Init /\ [][NextProperty]_vars

\* ------------------------------------------------ ResultReference::parse

\* "Members an object may hold" in the inputs of SpecReference.
MaxMembers == 3

\* The keys of the members, as the bytes of their text.
K_resultOf == <<114, 101, 115, 117, 108, 116, 79, 102>>
K_name     == <<110, 97, 109, 101>>
K_path     == <<112, 97, 116, 104>>
K_id       == <<105, 100>>
K_names    == <<110, 97, 109, 101, 115>>
K_Path     == <<80, 97, 116, 104>>

\* Little-endian value of at most four bytes.
RECURSIVE LeValue(_)
LeValue(bytes) == IF bytes = <<>> THEN 0 ELSE Head(bytes) + 256 * LeValue(Tail(bytes))

\* parser.next_dict_key::<u64>(): the bytes of a key of at most 8 bytes
\* packed little-endian into a u64, held as its two 32-bit halves
\* <<high, low>>.
KeyHash(key) ==
    <<LeValue(SubSeq(key, 5, Min(Len(key), 8))), LeValue(SubSeq(key, 1, Min(Len(key), 4)))>>

\* Faulty variant of PathKey: the key is spelled "Path".
PathKey_Capital == <<0, 1752457552>>

\* 0x664f_746c_7573_6572, 0x656d_616e and 0x6874_6170
ResultOfKey == <<1716483180, 1970496882>>
NameKey     == <<0, 1701667182>>
PathKey     == <<0, 1752457584>>

\* The value of a member: 1 or 2 stand for two values its parser accepts,
\* Rejected for a text on which the step that reads it returns an error.
Rejected == 0
MemberValues == {Rejected, 1, 2}

Members ==
    [key : {K_resultOf, K_name, K_path, K_id, K_names, K_Path}, value : MemberValues]

\* The inputs: a text that is no object, and the objects of 1 to MaxMembers
\* members.
ReferenceInputs ==
    {<<"Value">>} \cup
    {<<"Dict", members>> :
        members \in UNION {[1..n -> Members] : n \in 1..MaxMembers}}

\* Err(Error::Method(MethodError::InvalidResultReference("Missing required fields")))
MissingRequiredFields == <<"Err", "InvalidResultReference", "Missing required fields">>
\* The error a step of the parser returned, passed on by `?`.
ParserError == <<"Err", "Parser">>

\* The loop `while { match key {...}; !parser.is_dict_end()? } {}` from
\* the i-th member on: the three Options at its end, or the error of a step.
RECURSIVE ParseMembers(_, _, _)
ParseMembers(members, i, acc) ==
    LET key   == KeyHash(members[i].key)
        value == members[i].value
        next  == CASE key = ResultOfKey ->
                        IF value = Rejected THEN ParserError
                        ELSE <<"Ok", [acc EXCEPT !.result_of = Some(value)]>>
                   [] key = NameKey ->
                        IF value = Rejected THEN ParserError
                        ELSE <<"Ok", [acc EXCEPT !.name = Some(value)]>>
                   [] key = PathKey ->
                        IF value = Rejected THEN ParserError
                        ELSE <<"Ok", [acc EXCEPT !.path = Some(value)]>>
                   [] OTHER ->
                        IF value = Rejected THEN ParserError ELSE <<"Ok", acc>>
    IN  IF next[1] = "Err" THEN next
        ELSE IF i = Len(members) THEN next
        ELSE ParseMembers(members, i + 1, next[2])

\* Faulty variant of ReferenceParse: a reference with a field missing is
\* returned with the fields that were found.
ReferenceParse_Partial(input) ==
    IF input[1] # "Dict" THEN ParserError
    ELSE LET found == ParseMembers(input[2], 1,
                                   [result_of |-> None, name |-> None, path |-> None])
         IN  IF found[1] = "Err" THEN found
             ELSE <<"Ok", found[2]>>

\* impl JsonObjectParser for ResultReference: parse
ReferenceParse(input) ==
    IF input[1] # "Dict" THEN ParserError
    ELSE LET found == ParseMembers(input[2], 1,
                                   [result_of |-> None, name |-> None, path |-> None])
         IN  IF found[1] = "Err" THEN found
             ELSE IF /\ found[2].result_of # None
                     /\ found[2].name # None
                     /\ found[2].path # None
                  THEN <<"Ok", [result_of |-> found[2].result_of[2],
                                name      |-> found[2].name[2],
                                path      |-> found[2].path[2]]>>
                  ELSE MissingRequiredFields

\* The caller hands a text to the parser.
ReferenceInput(t) ==
    /\ parser[t] = NoParser
    /\ \E input \in ReferenceInputs : parser' = [parser EXCEPT ![t].input = Some(input)]
    /\ UNCHANGED <<store, pc, document, args, keys, batches, result, hist, ncalls, postings, wire>>

\* ResultReference::parse(&mut parser)
parse(t) ==
    /\ parser[t].input # None /\ parser[t].out = <<"NotRun">>
    /\ parser' = [parser EXCEPT ![t].out = ReferenceParse(parser[t].input[2])]
    /\ UNCHANGED <<store, pc, document, args, keys, batches, result, hist, ncalls, postings, wire>>

\* One caller parsing one text.
NextReference ==
    \/ ReferenceInput(1)
    \/ parse(1)

SpecReference == Init /\ [][NextReference]_vars

\* ----------------------------------------------------------------- claims

KeyAccount(k)  == DeserializeBeU32(k.key, 0)
KeyDocument(k) == DeserializeBeU32(k.key, Len(k.key) - U32_LEN)

Returned(t, call) == pc[t] = "done" /\ hist[t].call = call
ReturnedOk(t, call) == Returned(t, call) /\ result[t] = "Ok"

\* The tokens of a document with the field id of their part: the words of
\* its Tokenize and Text parts and the whole text of its Keyword parts.
DocTokens(d) ==
    UNION {LET text == d.parts[i]
           IN  IF text.typ = TypeKeyword
               THEN {<<text.text, FieldToU8(text.field)>>}
               ELSE {<<w.word, FieldToU8(text.field)>> :
                        w \in Range(WordTokenizer(text.text, MAX_TOKEN_LENGTH))}
           : i \in DOMAIN d.parts}

HasWord(st, k, token_type) ==
    /\ k \in DOMAIN st
    /\ PostingsDeserialize(st[k])[1] = "Ok"
    /\ token_type \in PostingsDeserialize(st[k])[2].bitmap

\* C1: after fts_index(d) has returned Ok, every token of d (a word of a
\* Tokenize or Text part, the text of a Keyword part) with field f has an
\* entry at (account, collection, BitmapHash(token), document) whose
\* deserialized bitmap contains word(f).
C1_TokensIndexed ==
    \A t \in Tasks :
        ReturnedOk(t, "fts_index") =>
            \A tok \in DocTokens(document[t]) :
                HasWord(store,
                        ValueKey(document[t].account_id, document[t].collection,
                                 document[t].document_id, BitmapHashNew(tok[1])),
                        TokenTypeWord(tok[2]))

C1_Witness ==
    /\ ReturnedOk(1, "fts_index")
    /\ \E i, j \in DOMAIN document[1].parts :
          /\ document[1].parts[i].typ = TypeKeyword
          /\ document[1].parts[j].typ[1] = "Text"
    /\ Cardinality(DocTokens(document[1])) >= 3
    /\ Len(hist[1].writes) >= 2

\* C2: after fts_remove(account, collection, S) has returned Ok, no posting
\* entry of a token of 1 to 7 bytes, of 8 bytes or of more than 8 bytes is
\* left for a document id of S under (account, collection).
C2_NoEntryLeft ==
    \A t \in Tasks :
        ReturnedOk(t, "fts_remove") =>
            \A k \in DOMAIN store :
                ~ /\ k.collection = args[t].collection
                  /\ KeyAccount(k) = args[t].account_id
                  /\ KeyDocument(k) \in args[t].document_ids
                  /\ Len(k.key) > U32_LEN + 1 + U32_LEN

Targeted(k, a) ==
    /\ k.collection = a.collection
    /\ KeyAccount(k) = a.account_id
    /\ KeyDocument(k) \in a.document_ids

\* C3: fts_remove(account, collection, S) leaves unchanged every entry whose
\* document id is not in S, every entry of another account and every entry
\* of another collection, and adds none.
C3_RemoveFrame ==
    \A t \in Tasks :
        hist[t].call = "fts_remove" =>
            /\ DOMAIN store \subseteq DOMAIN hist[t].before
            /\ \A k \in DOMAIN hist[t].before :
                  ~Targeted(k, args[t]) => k \in DOMAIN store /\ store[k] = hist[t].before[k]

C3_Witness ==
    /\ ReturnedOk(1, "fts_remove")
    /\ DOMAIN store # DOMAIN hist[1].before
    /\ \E k \in DOMAIN store :
          /\ KeyAccount(k) = args[1].account_id
          /\ k.collection # args[1].collection
          /\ KeyDocument(k) \in args[1].document_ids
    /\ \E k \in DOMAIN store :
          /\ KeyAccount(k) = args[1].account_id
          /\ k.collection = args[1].collection
          /\ KeyDocument(k) \notin args[1].document_ids

\* C4: every key fts_index writes for a BitmapHash round-trips through the
\* scanner: the visitor accepts the key and rebuilds the (hash, len) it was
\* written for, so that its Clear addresses the key scanned.
C4_KeyRoundTrip ==
    \A t \in Tasks :
        hist[t].call = "fts_index" =>
            \A w \in DOMAIN hist[t].writes :
                \A op \in Range(ValueOps(hist[t].writes[w])) :
                    Visit(FtsIndexKey(document[t].account_id, document[t].document_id, op[2]),
                          {document[t].document_id})
                        = <<"Delete", document[t].document_id, op[2]>>

\* The stores a complete fts_remove may leave, every write succeeding: one
\* for each order in which delete_keys can be iterated.
RemoveOutcomes(st, account_id, collection, document_ids) ==
    LET found == Scan(st, account_id, document_ids)
    IN  IF found[1] = "Err" THEN {st}
        ELSE {WriteAll(st, RemoveCommit(account_id, collection, found[2], order,
                                        RemoveBatch(account_id, collection), <<>>)) :
                 order \in Orderings(DOMAIN found[2])}

\* C5: fts_remove is idempotent: on every store a caller can find between
\* two calls, a second fts_remove with the same arguments leaves the store
\* the first one left.
C5_RemoveIdempotent ==
    (\A t \in Tasks : pc[t] = "idle") =>
    \A account_id \in Accounts, collection \in Collections,
       document_ids \in SUBSET DocumentIds :
        \A once \in RemoveOutcomes(store, account_id, collection, document_ids) :
            RemoveOutcomes(once, account_id, collection, document_ids) = {once}

C5_Witness ==
    \E account_id \in Accounts, collection \in Collections,
       document_ids \in SUBSET DocumentIds :
        \E once \in RemoveOutcomes(store, account_id, collection, document_ids) :
            /\ Cardinality(DOMAIN store) >= Cardinality(DOMAIN once) + 3
            /\ once # <<>>

CeilDiv(n, d) == (n + d - 1) \div d

\* C6: a successful fts_index of a document with N >= 1 unique token hashes
\* issues exactly ceil(N / limit) writes; every write but the last carries
\* exactly `limit` posting operations, the last one the remainder, and no
\* write carries none (limit is 1000 in the code).
C6_BatchBoundary ==
    \A t \in Tasks :
        (ReturnedOk(t, "fts_index") /\ hist[t].tokens # {}) =>
            LET N == Cardinality(hist[t].tokens)
                W == hist[t].writes
            IN  /\ Len(W) = CeilDiv(N, BatchOpsLimit)
                /\ \A w \in 1..(Len(W) - 1) : Len(ValueOps(W[w])) = BatchOpsLimit
                /\ Len(ValueOps(W[Len(W)])) = N - (Len(W) - 1) * BatchOpsLimit
                /\ \A w \in 1..Len(W) : Len(ValueOps(W[w])) >= 1

\* The posting operations a batch of fts_index takes before it is flushed:
\* the threshold less the header records of the batch.
PostingsPerBatch(d) == BatchOpsLimit - Len(IndexBatch(d).ops)

\* C6 (amended): the threshold counts the operations of the batch, its three
\* header records included: N >= 1 unique token hashes give
\* ceil(N / (limit - 3)) writes, every write but the last carries `limit`
\* operations of which limit - 3 are posting operations, the last one carries
\* the remainder, and no write carries no posting operation.
C6_BatchBoundaryWithHeaders ==
    \A t \in Tasks :
        (ReturnedOk(t, "fts_index") /\ hist[t].tokens # {}) =>
            LET N   == Cardinality(hist[t].tokens)
                W   == hist[t].writes
                per == PostingsPerBatch(document[t])
            IN  /\ Len(W) = CeilDiv(N, per)
                /\ \A w \in 1..(Len(W) - 1) :
                      /\ Len(W[w].ops) = BatchOpsLimit
                      /\ Len(ValueOps(W[w])) = per
                /\ Len(ValueOps(W[Len(W)])) = N - (Len(W) - 1) * per
                /\ \A w \in 1..Len(W) : Len(ValueOps(W[w])) >= 1
                /\ {op[2] : op \in UNION {Range(ValueOps(W[w])) : w \in 1..Len(W)}}
                      = hist[t].tokens

C6_Witness ==
    /\ ReturnedOk(1, "fts_index")
    /\ Len(hist[1].writes) >= 2
    /\ Len(ValueOps(hist[1].writes[Len(hist[1].writes)])) < PostingsPerBatch(document[1])

\* C7: for a document with no part, or with only parts of empty text (Text,
\* Tokenize or Keyword), fts_index makes no store write and returns Ok.
C7_EmptyDocumentNoWrite ==
    \A t \in Tasks :
        (/\ hist[t].call = "fts_index"
         /\ \A i \in DOMAIN document[t].parts : document[t].parts[i].text = <<>>) =>
            /\ pc[t] # "index"
            /\ hist[t].writes = <<>>
            /\ pc[t] = "done" => result[t] = "Ok"

\* The positions fts_index gave the words of part i.
PartPositions(t, i) ==
    {hist[t].inserts[k].position : k \in {n \in DOMAIN hist[t].inserts : hist[t].inserts[n].part = i}}

SetMax(S) == CHOOSE x \in S : \A y \in S : y <= x
SetMin(S) == CHOOSE x \in S : \A y \in S : x <= y

\* C8: for every two consecutive parts i and i+1, in the order of the
\* caller, that both produce words, the first word of part i+1 has a
\* position >= p + 10, p being the position of the last word of part i.
C8_GapCallerOrder ==
    \A t \in Tasks :
        hist[t].call = "fts_index" =>
            \A i \in 1..(Len(document[t].parts) - 1) :
                (PartPositions(t, i) # {} /\ PartPositions(t, i + 1) # {}) =>
                    SetMin(PartPositions(t, i + 1)) >= SetMax(PartPositions(t, i)) + PositionGap

\* Part i is numbered before part j: the Tokenize parts in the first loop,
\* the Text parts in the second one, each in the order of the caller.
NumberedBefore(d, i, j) ==
    \/ d.parts[i].typ = TypeTokenize /\ d.parts[j].typ[1] = "Text"
    \/ d.parts[i].typ[1] = d.parts[j].typ[1] /\ i < j

\* C8 (amended): for every two parts that both produce words, the one
\* numbered first ending at position p, the first word of the other has a
\* position >= p + 10.
C8_GapNumberingOrder ==
    \A t \in Tasks :
        hist[t].call = "fts_index" =>
            \A i, j \in DOMAIN document[t].parts :
                (/\ NumberedBefore(document[t], i, j)
                 /\ PartPositions(t, i) # {} /\ PartPositions(t, j) # {}) =>
                    SetMin(PartPositions(t, j)) >= SetMax(PartPositions(t, i)) + PositionGap

C8_Witness ==
    /\ hist[1].call = "fts_index"
    /\ \E i \in 1..(Len(document[1].parts) - 1) :
          /\ document[1].parts[i].typ[1] = "Text"
          /\ document[1].parts[i + 1].typ = TypeTokenize
          /\ PartPositions(1, i) # {} /\ PartPositions(1, i + 1) # {}

StrictlyIncreasing(sq) == \A k \in 1..(Len(sq) - 1) : sq[k] < sq[k + 1]

\* C9: the positions fts_index passes to successive Postings::insert calls
\* are strictly increasing, so that in every posting it writes the positions
\* of a field are strictly increasing and no two words share a position.
C9_PositionsIncrease ==
    \A t \in Tasks :
        hist[t].call = "fts_index" =>
            /\ StrictlyIncreasing([k \in DOMAIN hist[t].inserts |-> hist[t].inserts[k].position])
            /\ \A w \in DOMAIN hist[t].writes :
                  \A op \in Range(ValueOps(hist[t].writes[w])) :
                      LET p == PostingsDeserialize(op[3][2])
                      IN  /\ p[1] = "Ok"
                          /\ \A f \in DOMAIN p[2].positions : StrictlyIncreasing(p[2].positions[f])

C9_Witness ==
    /\ ReturnedOk(1, "fts_index")
    /\ Len(hist[1].inserts) >= 3
    /\ \E k \in DOMAIN store :
          \E f \in DOMAIN PostingsDeserialize(store[k])[2].positions :
              Len(PostingsDeserialize(store[k])[2].positions[f]) >= 2

DocKey(d, hash) == ValueKey(d.account_id, d.collection, d.document_id, hash)

NoPositions(p) == \A f \in DOMAIN p.positions : p.positions[f] = <<>>

\* C10: for every word w of a Text part with field f that the stemmer gives
\* a stemmed form s, a successful fts_index leaves an entry at
\* BitmapHash(s), separate from the entry of w, whose bitmap contains
\* stemmed(f) and whose position stream is empty.
C10_StemmedNoPositions ==
    \A t \in Tasks :
        ReturnedOk(t, "fts_index") =>
            \A n \in DOMAIN hist[t].stems :
                LET e  == hist[t].stems[n]
                    ks == DocKey(document[t], BitmapHashNew(e.stemmed_word))
                IN  /\ HasWord(store, ks, TokenTypeStemmed(e.field))
                    /\ ks # DocKey(document[t], BitmapHashNew(e.word))
                    /\ NoPositions(PostingsDeserialize(store[ks])[2])

\* The positions fts_index inserted under `hash` for field f.
InsertedAt(t, hash, f) ==
    {hist[t].inserts[k].position :
        k \in {n \in DOMAIN hist[t].inserts :
                  /\ hist[t].inserts[n].hash = hash
                  /\ hist[t].inserts[n].token_type = TokenTypeWord(f)}}

\* The fields for which fts_index inserted a position under `hash`.
InsertedFields(t, hash) ==
    {hist[t].inserts[n].token_type[2] :
        n \in {m \in DOMAIN hist[t].inserts : hist[t].inserts[m].hash = hash}}

\* C10 (amended): the entry at BitmapHash(s) is separate from the entry of
\* w and its bitmap contains stemmed(f); the stemmed form adds no position
\* to it, so its position stream holds exactly the positions of the words of
\* the document whose hash is BitmapHash(s), and none when there is no such
\* word.
C10_StemmedAddsNoPosition ==
    \A t \in Tasks :
        ReturnedOk(t, "fts_index") =>
            \A n \in DOMAIN hist[t].stems :
                LET e  == hist[t].stems[n]
                    sh == BitmapHashNew(e.stemmed_word)
                    ks == DocKey(document[t], sh)
                    p  == PostingsDeserialize(store[ks])[2]
                IN  /\ HasWord(store, ks, TokenTypeStemmed(e.field))
                    /\ ks # DocKey(document[t], BitmapHashNew(e.word))
                    /\ DOMAIN p.positions = InsertedFields(t, sh)
                    /\ \A f \in DOMAIN p.positions :
                          /\ Range(p.positions[f]) = InsertedAt(t, sh, f)
                          /\ Len(p.positions[f]) = Cardinality(InsertedAt(t, sh, f))

C10_Witness ==
    /\ ReturnedOk(1, "fts_index")
    /\ \E n \in DOMAIN hist[1].stems :
          LET ks == DocKey(document[1], BitmapHashNew(hist[1].stems[n].stemmed_word))
          IN  /\ ks \in DOMAIN store
              /\ ~NoPositions(PostingsDeserialize(store[ks])[2])

\* The locals of fts_index when its first loop reaches part i.
AccBefore(d, det, i) ==
    FirstPass([d EXCEPT !.parts = SubSeq(@, 1, i - 1)], det, 1, NewAcc)

KeywordParts(d) == {i \in DOMAIN d.parts : d.parts[i].typ = TypeKeyword}

\* C11: a Keyword part records its whole text as one token with only the
\* bitmap entry word(field); the posting written for the token of a Keyword
\* part contains no positions.
C11_KeywordPostingNoPositions ==
    \A t \in Tasks :
        ReturnedOk(t, "fts_index") =>
            \A i \in KeywordParts(document[t]) :
                LET k == DocKey(document[t], BitmapHashNew(document[t].parts[i].text))
                IN  /\ HasWord(store, k, TokenTypeWord(FieldToU8(document[t].parts[i].field)))
                    /\ NoPositions(PostingsDeserialize(store[k])[2])

\* C11 (amended): a Keyword part adds word(field) to the bitmap of the
\* posting of its whole text and nothing else: no position to any posting,
\* no change of the running position. The posting written for its token
\* holds exactly the positions of the words of the document that have the
\* same hash, and none when there is no such word.
C11_KeywordAddsNoPosition ==
    \A t \in Tasks :
        hist[t].call = "fts_index" =>
            \A i \in KeywordParts(document[t]) :
                LET text == document[t].parts[i]
                    hash == BitmapHashNew(text.text)
                    pre  == AccBefore(document[t], hist[t].det, i)
                    post == KeywordPart(pre, text)
                    k    == DocKey(document[t], hash)
                IN  /\ post.position = pre.position
                    /\ post.inserts = pre.inserts
                    /\ DOMAIN post.tokens = DOMAIN pre.tokens \cup {hash}
                    /\ \A h \in DOMAIN pre.tokens \ {hash} : post.tokens[h] = pre.tokens[h]
                    /\ post.tokens[hash].positions = Entry(pre.tokens, hash).positions
                    /\ post.tokens[hash].bitmap =
                          Entry(pre.tokens, hash).bitmap \cup {TokenTypeWord(FieldToU8(text.field))}
                    /\ \A n \in DOMAIN hist[t].inserts : hist[t].inserts[n].part # i
                    /\ ReturnedOk(t, "fts_index") =>
                          /\ HasWord(store, k, TokenTypeWord(FieldToU8(text.field)))
                          /\ LET p == PostingsDeserialize(store[k])[2]
                             IN  /\ DOMAIN p.positions = InsertedFields(t, hash)
                                 /\ \A f \in DOMAIN p.positions :
                                        Range(p.positions[f]) = InsertedAt(t, hash, f)

\* A Keyword part after a part that produced words, its token being a word
\* of another part.
C11_Witness ==
    /\ ReturnedOk(1, "fts_index")
    /\ \E i \in KeywordParts(document[1]) :
          /\ i > 1
          /\ AccBefore(document[1], hist[1].det, i).position > 0
          /\ ~NoPositions(PostingsDeserialize(
                 store[DocKey(document[1], BitmapHashNew(document[1].parts[i].text))])[2])

\* C12: when a write of fts_index fails, fts_index returns the error: it
\* makes no further write and no retry, and the batches written before the
\* failure stay in the store.
C12_WriteFailureAborts ==
    \A t \in Tasks :
        (Returned(t, "fts_index") /\ result[t] = "Err") =>
            /\ store = WriteAll(hist[t].before, hist[t].writes)
            /\ keys[t] # {}
            /\ \A w \in DOMAIN hist[t].writes :
                  \A op \in Range(ValueOps(hist[t].writes[w])) :
                      LET k == DocKey(document[t], op[2])
                      IN  k \in DOMAIN store /\ store[k] = op[3][2]
            /\ ~ENABLED IndexWriteOk(t)
            /\ ~ENABLED IndexWriteErr(t)

C12_Witness ==
    /\ Returned(1, "fts_index") /\ result[1] = "Err"
    /\ hist[1].writes # <<>>
    /\ hist[1].before # <<>>
    /\ store # hist[1].before

\* The posting operations of the batches W, in the order they were pushed.
RECURSIVE FlatOps(_)
FlatOps(W) == IF W = <<>> THEN <<>> ELSE ValueOps(Head(W)) \o FlatOps(Tail(W))

\* C13: the batches of one fts_index are written one after the other, each
\* after the write before it has returned Ok: at every moment the store
\* holds the store of the call's start with a prefix of the sequence of
\* batches applied in order, and nothing else of that sequence.
C13_CommittedPrefix ==
    \A t \in Tasks :
        hist[t].call = "fts_index" =>
            LET W    == hist[t].writes
                full == IndexCommit(document[t], IndexBatch(document[t]),
                                    FlatOps(W) \o SetToSeq(keys[t]), <<>>)
            IN  /\ store = WriteAll(hist[t].before, W)
                /\ Len(W) <= Len(full)
                /\ SubSeq(full, 1, Len(W)) = W
                /\ {op[2] : op \in Range(FlatOps(W))} \cup {op[2] : op \in keys[t]} = hist[t].tokens
                /\ Len(FlatOps(W)) + Cardinality(keys[t]) = Cardinality(hist[t].tokens)
                /\ ReturnedOk(t, "fts_index") <=> (pc[t] = "done" /\ W = full)

\* The first batch is written, the second not yet.
C13_Witness ==
    /\ pc[1] = "index"
    /\ Len(hist[1].writes) = 1
    /\ Cardinality(keys[1]) >= 2
    /\ Len(IndexCommit(document[1], IndexBatch(document[1]),
                       FlatOps(hist[1].writes) \o SetToSeq(keys[1]), <<>>)) >= 2

\* The entries of st under the account, collection and document of d.
EntriesOf(st, d) ==
    {k \in DOMAIN st : /\ k.collection = d.collection
                       /\ KeyAccount(k) = d.account_id
                       /\ KeyDocument(k) = d.document_id}

\* The postings fts_index(d) writes when it runs to its end, as a store.
PostingsOf(d, det, mfl) ==
    LET tokens == BuildPostings(d, det, mfl).tokens
    IN  [k \in {DocKey(d, hash) : hash \in DOMAIN tokens} |->
            PostingsSerialize(tokens[CHOOSE hash \in DOMAIN tokens : DocKey(d, hash) = k])]

\* The stores a complete fts_index(d) may leave on st, every write
\* succeeding: one for each order in which tokens can be iterated.
IndexOutcomes(st, d, det, mfl) ==
    LET all == SerializeKeys(BuildPostings(d, det, mfl).tokens)
    IN  {WriteAll(st, IndexCommit(d, IndexBatch(d), order, <<>>)) : order \in Orderings(all)}

HashRegion(k) == Len(k.key) - (U32_LEN * 2) - 1

\* The keys of the scanned range that the scanner rejects for the set S.
InvalidKeys(st, account_id, S) ==
    {k \in InScan(st, account_id) :
        KeyDocument(k) \in S /\ HashRegion(k) \notin (1..7) \cup {9}}

\* fts_remove has returned the error of its scan.
ScanFailed(t) ==
    Returned(t, "fts_remove") /\ result[t] = "Err" /\ batches[t] = <<>>

\* C15: when the scan of fts_remove fails, with an error of iterate or on a
\* key of a document of the set whose hash region has a length outside
\* 1..7 and 9, fts_remove returns the error and has issued no Clear: the
\* store is as it was, no write is made before the scan has ended.
C15_ScanFailureNoWrite ==
    \A t \in Tasks :
        /\ ScanFailed(t) =>
              /\ store = hist[t].before
              /\ hist[t].writes = <<>>
              /\ ~ENABLED RemoveWriteOk(t)
        /\ (hist[t].call = "fts_remove" /\ pc[t] # "scan") =>
              LET bad == InvalidKeys(hist[t].before, args[t].account_id, args[t].document_ids)
              IN  /\ (Scan(hist[t].before, args[t].account_id, args[t].document_ids)[1] = "Err")
                        <=> (bad # {})
                  /\ bad # {} => ScanFailed(t)
        /\ (hist[t].call = "fts_remove" /\ pc[t] = "scan") =>
              /\ store = hist[t].before
              /\ hist[t].writes = <<>>

\* The scan has met a key it rejects while the store holds entries of the
\* set that it accepts.
C15_Witness ==
    /\ ScanFailed(1)
    /\ InvalidKeys(store, args[1].account_id, args[1].document_ids) # {}
    /\ \E k \in InScan(store, args[1].account_id) :
          /\ Targeted(k, args[1])
          /\ HashRegion(k) \in 1..7

\* C16: fts_remove_all(account) does nothing: for every account id it
\* returns Ok without a scan or a write and leaves every entry of the store
\* as it was.
C16_RemoveAllNoOp ==
    \A t \in Tasks :
        hist[t].call = "fts_remove_all" =>
            /\ pc[t] = "done" /\ result[t] = "Ok"
            /\ store = hist[t].before
            /\ hist[t].writes = <<>>
            /\ batches[t] = <<>>
            /\ ~ENABLED RemoveScan(t) /\ ~ENABLED RemoveWriteOk(t) /\ ~ENABLED IndexWriteOk(t)

\* fts_remove_all has returned for an account that has entries.
C16_Witness ==
    /\ ReturnedOk(1, "fts_remove_all")
    /\ \E k \in DOMAIN store : KeyAccount(k) = args[1].account_id
    /\ \E k \in DOMAIN store : KeyAccount(k) # args[1].account_id

TextParts(d) == {i \in DOMAIN d.parts : d.parts[i].typ[1] = "Text"}

\* The language the specification gives part i of d, the detector having
\* answered det and mfl.
ReconciledLanguage(d, det, mfl, i) ==
    LET submitted == d.parts[i].typ[2]
        doc_lang  == IF mfl[1] = "Some" THEN mfl[2] ELSE d.default_language
    IN  IF submitted # Unknown THEN submitted
        ELSE IF det[i] # Unknown THEN det[i]
        ELSE doc_lang

\* C17: a Text part submitted with a language is stemmed with it; a Text
\* part submitted as Unknown is stemmed with the language the detector
\* returned for it when that is not Unknown, and otherwise with the
\* detector's most frequent language or, when it has none, with the
\* default_language of the document.
C17_LanguageReconciliation ==
    \A t \in Tasks :
        hist[t].call = "fts_index" =>
            LET d == document[t]
            IN  /\ {hist[t].langs[n].part : n \in DOMAIN hist[t].langs} = TextParts(d)
                /\ Len(hist[t].langs) = Cardinality(TextParts(d))
                /\ \A n \in DOMAIN hist[t].langs :
                      LET i    == hist[t].langs[n].part
                          lang == ReconciledLanguage(d, hist[t].det, hist[t].mfl, i)
                      IN  /\ hist[t].langs[n].language = lang
                          /\ {<<e.word, e.stemmed_word>> :
                                 e \in {x \in Range(hist[t].stems) : x.part = i}}
                                = {<<w.word, w.stemmed_word[2]>> :
                                      w \in {x \in Range(Stemmer(d.parts[i].text, lang,
                                                                 MAX_TOKEN_LENGTH)) :
                                                x.stemmed_word[1] = "Some"}}

\* A part submitted as Unknown, for which the detector returns Unknown, is
\* stemmed with the most frequent language, which is not the default one.
C17_Witness ==
    /\ ReturnedOk(1, "fts_index")
    /\ hist[1].stems # <<>>
    /\ hist[1].mfl = Some(English)
    /\ document[1].default_language = German
    /\ \E n \in DOMAIN hist[1].langs :
          /\ document[1].parts[hist[1].langs[n].part].typ[2] = Unknown
          /\ hist[1].det[hist[1].langs[n].part] = Unknown
          /\ hist[1].langs[n].language = English

\* The byte the specification gives a field.
DocumentedFieldId(field) ==
    CASE field = Body       -> 0
      [] field = Attachment -> 1
      [] field = Keyword    -> 2
      [] OTHER              -> 3 + field[2]

\* C18: fts_index records a part of field Body, Attachment, Keyword or
\* Header(h), h < 253, under the byte 0, 1, 2 or 3 + h, which no other field
\* of that domain gets.
C18_FieldIdInjective ==
    \A t \in Tasks :
        (hist[t].call = "fts_index" /\ hist[t].inserts # <<>>) =>
            LET field == document[t].parts[hist[t].inserts[1].part].field
                id    == hist[t].inserts[1].token_type[2]
            IN  /\ id = DocumentedFieldId(field)
                /\ id \in 0..255
                /\ \A other \in DocumentedFields \ {field} : FieldToU8(other) # id
                /\ ReturnedOk(t, "fts_index") =>
                      \A k \in DOMAIN store :
                          PostingsDeserialize(store[k])[2].bitmap = {TokenTypeWord(id)}

\* The last header of the domain is indexed under the byte 255.
C18_Witness ==
    /\ ReturnedOk(1, "fts_index")
    /\ document[1].parts[1].field = Header(252)
    /\ \E k \in DOMAIN store : TokenTypeWord(255) \in PostingsDeserialize(store[k])[2].bitmap

C20_ShortTokensExact ==
    \A t \in Tasks :
        hist[t].call = "fts_index" =>
            LET texts == {document[t].parts[i].text : i \in KeywordParts(document[t])}
                short == {x \in texts : Len(x) <= 8}
            IN  /\ \A x \in short :
                      \E h \in hist[t].tokens :
                          /\ h.len = Len(x)
                          /\ SubSeq(h.hash, 1, h.len) = x
                          /\ \A n \in (h.len + 1)..8 : h.hash[n] = 0
                /\ \A x \in texts \ short : \E h \in hist[t].tokens : h.len = 9
                /\ Cardinality({h \in hist[t].tokens : h.len <= 8}) = Cardinality(short)
                /\ \A h \in hist[t].tokens : h.len \in (0..8) \cup {9}

\* Two keywords with the same hash bytes and different lengths have two
\* entries.
C20_Witness ==
    /\ ReturnedOk(1, "fts_index")
    /\ \E i, j \in KeywordParts(document[1]) :
          /\ document[1].parts[i].text = W_a
          /\ document[1].parts[j].text = W_a_nul
    /\ Cardinality(DOMAIN store) = 2

Triple(d) == <<d.account_id, d.collection, d.document_id>>

\* The stores left by the complete call of task a followed by the complete
\* call of task b, one after the other on the empty store, each with the
\* answers its language detector gave.
OneAfterTheOther(a, b) ==
    UNION {IndexOutcomes(mid, document[b], hist[b].det, hist[b].mfl) :
              mid \in IndexOutcomes(<<>>, document[a], hist[a].det, hist[a].mfl)}

\* C22: two fts_index calls for distinct (account, collection, document)
\* triples whose writes interleave in any way, both returning Ok, leave the
\* store that the two calls leave when run one after the other, in either
\* order; the keys they write are disjoint.
C22_ConcurrentIndexCommute ==
    (/\ \A t \in Tasks : ReturnedOk(t, "fts_index")
     /\ Triple(document[1]) # Triple(document[2])) =>
        /\ OneAfterTheOther(1, 2) = {store}
        /\ OneAfterTheOther(2, 1) = {store}
        /\ DOMAIN PostingsOf(document[1], hist[1].det, hist[1].mfl)
              \cap DOMAIN PostingsOf(document[2], hist[2].det, hist[2].mfl) = {}

\* Both calls returned Ok for distinct triples, and the second began and
\* wrote while the first was between two of its writes.
C22_Witness ==
    /\ \A t \in Tasks : ReturnedOk(t, "fts_index")
    /\ Triple(document[1]) # Triple(document[2])
    /\ Len(hist[1].writes) >= 2
    /\ hist[2].writes # <<>>
    /\ EntriesOf(hist[2].before, document[1]) # {}
    /\ EntriesOf(hist[2].before, document[1])
          # DOMAIN PostingsOf(document[1], hist[1].det, hist[1].mfl)
    /\ EntriesOf(WriteAll(hist[2].before, hist[2].writes), document[1])
          # DOMAIN PostingsOf(document[1], hist[1].det, hist[1].mfl)

\* The words of a text, oversized ones included.
WordsOf(text) == Range(SplitWords(text, 1, <<>>))

\* The words of the Text and Tokenize parts of d, and the roots the stemmer
\* has for them.
PartWords(d) ==
    UNION {WordsOf(d.parts[i].text) :
              i \in {j \in DOMAIN d.parts : d.parts[j].typ[1] \in {"Text", "Tokenize"}}}

StemsOf(words) ==
    {StemOf(w, l)[2] : <<w, l>> \in {x \in words \X Languages : StemOf(x[1], x[2]) # None}}

KeywordTexts(d) ==
    {d.parts[i].text : i \in {j \in DOMAIN d.parts : d.parts[j].typ = TypeKeyword}}

Short(S) == {x \in S : Len(x) <= MAX_TOKEN_LENGTH}

\* C23 (as stated): every posting fts_index writes is keyed by a token of at
\* most MAX_TOKEN_LENGTH bytes, whether a word of a Text or Tokenize part, a
\* root of such a word, or the text of a Keyword part; a call fails only
\* at a write.
C23_NoOversizedToken ==
    \A t \in Tasks :
        hist[t].call = "fts_index" =>
            /\ \A hash \in hist[t].tokens :
                  \E x \in Short(PartWords(document[t])) \cup
                           Short(StemsOf(Short(PartWords(document[t])))) \cup
                           Short(KeywordTexts(document[t])) :
                      hash = BitmapHashNew(x)
            /\ \A k \in DOMAIN store : \E hash \in hist[t].tokens : k = DocKey(document[t], hash)
            /\ (pc[t] = "done" /\ result[t] = "Err") => keys[t] # {}

\* C23 (amended): the words of Text and Tokenize parts longer than
\* MAX_TOKEN_LENGTH get no posting and raise no error; the text of a Keyword
\* part is hashed whole, whatever its length.
C23_OversizedWordsDropped ==
    \A t \in Tasks :
        hist[t].call = "fts_index" =>
            /\ \A hash \in hist[t].tokens :
                  \E x \in Short(PartWords(document[t])) \cup
                           Short(StemsOf(Short(PartWords(document[t])))) \cup
                           KeywordTexts(document[t]) :
                      hash = BitmapHashNew(x)
            /\ \A k \in DOMAIN store : \E hash \in hist[t].tokens : k = DocKey(document[t], hash)
            /\ (pc[t] = "done" /\ result[t] = "Err") => keys[t] # {}

\* A document with an oversized word in a Tokenize part and in a Text part
\* was indexed with Ok: the short word beside it is stored, it is not.
C23_Witness ==
    /\ ReturnedOk(1, "fts_index")
    /\ \E i, j \in DOMAIN document[1].parts :
          /\ document[1].parts[i].typ = TypeTokenize
          /\ document[1].parts[j].typ[1] = "Text"
          /\ W_oversized \in WordsOf(document[1].parts[i].text)
          /\ W_oversized \in WordsOf(document[1].parts[j].text)
    /\ DocKey(document[1], BitmapHashNew(W_attachment)) \in DOMAIN store
    /\ DocKey(document[1], BitmapHashNew(W_oversized)) \notin DOMAIN store

\* The words the tokenizer gives for part i of d (the stemmer gives the
\* same words).
PartTokens(d, i) == WordTokenizer(d.parts[i].text, MAX_TOKEN_LENGTH)

\* The inserts of the call of t made for part i under `hash`, in order.
PartInserts(t, i, hash) ==
    SelectSeq(hist[t].inserts, LAMBDA e : e.part = i /\ e.hash = hash)

\* The posting the call of t hands to write under `hash`.
WrittenPosting(t, hash) ==
    LET op == CHOOSE o \in keys[t] \cup Range(FlatOps(hist[t].writes)) : o[2] = hash
    IN  PostingsDeserialize(op[3][2])[2]

\* C24: a token that occurs k times as a word in one Tokenize or Text part
\* with field f gets k inserts for that part, each with its own position,
\* all in one posting: when no other part has the field f for that token the
\* posting holds exactly these k positions for f, and its bitmap holds
\* word(f).
C24_RepeatedTokenPositions ==
    \A t \in Tasks :
        hist[t].call = "fts_index" =>
            \A i \in DOMAIN document[t].parts :
                document[t].parts[i].typ[1] \in {"Text", "Tokenize"} =>
                    \A n \in DOMAIN PartTokens(document[t], i) :
                        LET d    == document[t]
                            f    == FieldToU8(d.parts[i].field)
                            hash == BitmapHashNew(PartTokens(d, i)[n].word)
                            k    == Cardinality({m \in DOMAIN PartTokens(d, i) :
                                        BitmapHashNew(PartTokens(d, i)[m].word) = hash})
                            ins  == PartInserts(t, i, hash)
                            p    == WrittenPosting(t, hash)
                        IN  /\ Len(ins) = k
                            /\ \A a, b \in 1..k : ins[a].position = ins[b].position => a = b
                            /\ \A a \in 1..k : ins[a].token_type = TokenTypeWord(f)
                            /\ Cardinality({o \in keys[t] \cup Range(FlatOps(hist[t].writes)) :
                                               o[2] = hash}) = 1
                            /\ TokenTypeWord(f) \in p.bitmap
                            /\ f \in DOMAIN p.positions
                            /\ (InsertedAt(t, hash, f) = {ins[a].position : a \in 1..k}) =>
                                  p.positions[f] = [a \in 1..k |-> ins[a].position]

\* A document whose only part gives the same word twice, with
\* another word in between: the stored posting of the word has two positions
\* for the field of the part and one bitmap entry.
C24_Witness ==
    /\ ReturnedOk(1, "fts_index")
    /\ Len(document[1].parts) = 1
    /\ document[1].parts[1].text = T_a_fox_a
    /\ LET k == DocKey(document[1], BitmapHashNew(W_a))
       IN  /\ k \in DOMAIN store
           /\ PostingsDeserialize(store[k])[2].positions = (3 :> <<0, 2>>)
           /\ PostingsDeserialize(store[k])[2].bitmap = {TokenTypeWord(3)}

\* C25: every BitmapHash under which fts_index writes a posting has len in
\* 1..8 (a literal token) or len = 9 (a digest), for every document the
\* builder can construct.
C25_HashLenValid ==
    \A t \in Tasks :
        hist[t].call = "fts_index" =>
            \A op \in Range(FlatOps(hist[t].writes)) : op[2].len \in 1..9

\* The Value operations of ops from the i-th on, each with the account,
\* collection and document of the header records before it.
RECURSIVE ScopedOps(_, _, _)
ScopedOps(ops, i, scope) ==
    IF i > Len(ops) THEN <<>>
    ELSE LET op == ops[i]
         IN  CASE op[1] = "AccountId"  -> ScopedOps(ops, i + 1, [scope EXCEPT !.account_id = op[2]])
               [] op[1] = "Collection" -> ScopedOps(ops, i + 1, [scope EXCEPT !.collection = op[2]])
               [] op[1] = "DocumentId" -> ScopedOps(ops, i + 1, [scope EXCEPT !.document_id = op[2]])
               [] op[1] = "Value" ->
                    <<[account_id |-> scope.account_id, collection |-> scope.collection,
                       document_id |-> scope.document_id, class |-> op[2], op |-> op[3]]>>
                        \o ScopedOps(ops, i + 1, scope)

ScopedBatch(batch) ==
    ScopedOps(batch.ops, 1, [account_id |-> 0, collection |-> 0, document_id |-> 0])

RECURSIVE ScopedAll(_)
ScopedAll(W) == IF W = <<>> THEN <<>> ELSE ScopedBatch(Head(W)) \o ScopedAll(Tail(W))

\* The operations the fts_remove of t issues under document d: those of the
\* batches it has written and of those it has still to write, in order.
ClearsFor(t, d) ==
    SelectSeq(ScopedAll(hist[t].writes \o batches[t]), LAMBDA o : o.document_id = d)

\* The keys of document d the scan of t's fts_remove turned into a class to
\* delete, in scan order.
ScannedFor(t, d) ==
    SelectSeq(SortKeys(InScan(hist[t].before, args[t].account_id)),
              LAMBDA k : /\ Visit(k.key, args[t].document_ids)[1] = "Delete"
                         /\ Visit(k.key, args[t].document_ids)[2] = d)

\* The documents of the store when the fts_remove of t began.
ScannedDocuments(t) == {KeyDocument(k) : k \in DOMAIN hist[t].before}

\* C26 (as stated): every Clear of fts_remove is issued under the account,
\* the collection and the document id of the key it was reconstructed from.
C26_ClearUnderKeyScope ==
    \A t \in Tasks :
        (hist[t].call = "fts_remove" /\ pc[t] \in {"remove", "done"}) =>
            \A d \in ScannedDocuments(t) \cup {0} :
                \A n \in DOMAIN ClearsFor(t, d) :
                    /\ n <= Len(ScannedFor(t, d))
                    /\ ClearsFor(t, d)[n].account_id = KeyAccount(ScannedFor(t, d)[n])
                    /\ ClearsFor(t, d)[n].collection = ScannedFor(t, d)[n].collection
                    /\ ClearsFor(t, d)[n].document_id = KeyDocument(ScannedFor(t, d)[n])

\* C26 (amended): every Clear of fts_remove is issued under the account and
\* the collection of the call and under the document id of the key it was
\* reconstructed from, for the class the visitor rebuilt from that key;
\* every key the visitor kept gets its Clear; the scanned key itself may
\* lie in another collection of the account.
C26_ClearUnderCallScope ==
    \A t \in Tasks :
        (hist[t].call = "fts_remove" /\ pc[t] \in {"remove", "done"}) =>
            \A d \in ScannedDocuments(t) \cup {0} :
                /\ \A n \in DOMAIN ClearsFor(t, d) :
                      /\ n <= Len(ScannedFor(t, d))
                      /\ ClearsFor(t, d)[n].account_id = args[t].account_id
                      /\ ClearsFor(t, d)[n].account_id = KeyAccount(ScannedFor(t, d)[n])
                      /\ ClearsFor(t, d)[n].collection = args[t].collection
                      /\ ClearsFor(t, d)[n].document_id = KeyDocument(ScannedFor(t, d)[n])
                      /\ ClearsFor(t, d)[n].class
                            = Visit(ScannedFor(t, d)[n].key, args[t].document_ids)[3]
                      /\ ClearsFor(t, d)[n].op = ValueOpClear
                /\ ReturnedOk(t, "fts_remove") =>
                      Len(ClearsFor(t, d)) = Len(ScannedFor(t, d))

\* A returned fts_remove one of whose batches carries the Clears of two
\* documents, the Clears of one of them going on in the next batch.
C26_Witness ==
    /\ ReturnedOk(1, "fts_remove")
    /\ \E w \in 1..(Len(hist[1].writes) - 1) :
          \E a, b \in DOMAIN ScopedBatch(hist[1].writes[w]) :
              /\ ScopedBatch(hist[1].writes[w])[a].document_id
                    # ScopedBatch(hist[1].writes[w])[b].document_id
              /\ ScopedBatch(hist[1].writes[w + 1]) # <<>>
              /\ ScopedBatch(hist[1].writes[w + 1])[1].document_id
                    = ScopedBatch(hist[1].writes[w])[b].document_id

\* The language the call of t gave the stemmer for part i.
StemLanguage(t, i) ==
    LET n == CHOOSE m \in DOMAIN hist[t].langs : hist[t].langs[m].part = i
    IN  hist[t].langs[n].language

\* The (hash, token type) pairs part i of the document of t occurs with:
\* its words as word(f), the roots of the words of a Text part as
\* stemmed(f), the whole text of a Keyword part as word(f).
PartPairs(t, i) ==
    LET part  == document[t].parts[i]
        f     == FieldToU8(part.field)
        words == {PartTokens(document[t], i)[n].word : n \in DOMAIN PartTokens(document[t], i)}
    IN  CASE part.typ[1] = "Keyword"  -> {<<BitmapHashNew(part.text), TokenTypeWord(f)>>}
          [] part.typ[1] = "Tokenize" -> {<<BitmapHashNew(w), TokenTypeWord(f)>> : w \in words}
          [] part.typ[1] = "Text"     ->
                {<<BitmapHashNew(w), TokenTypeWord(f)>> : w \in words} \cup
                {<<BitmapHashNew(StemOf(w, StemLanguage(t, i))[2]), TokenTypeStemmed(f)>> :
                    w \in {x \in words : StemOf(x, StemLanguage(t, i)) # None}}

DocumentPairs(t) == UNION {PartPairs(t, i) : i \in DOMAIN document[t].parts}

\* C27: one fts_index run issues exactly one Set per distinct BitmapHash of
\* the document, and the bitmap of the posting it sets holds every (field,
\* kind) pair the hash occurred with in any part, and no other.
C27_OnePostingPerHash ==
    \A t \in Tasks :
        hist[t].call = "fts_index" =>
            LET sets   == FlatOps(hist[t].writes) \o SetToSeq(keys[t])
                hashes == {pair[1] : pair \in DocumentPairs(t)}
            IN  /\ Len(sets) = Cardinality(hashes)
                /\ {sets[n][2] : n \in DOMAIN sets} = hashes
                /\ \A n \in DOMAIN sets :
                      /\ sets[n][3][1] = "Set"
                      /\ PostingsDeserialize(sets[n][3][2])[2].bitmap
                            = {pair[2] : pair \in {q \in DocumentPairs(t) : q[1] = sets[n][2]}}

\* A token indexed as a word of two fields and as the root of another word:
\* its one stored posting holds the three pairs.
C27_Witness ==
    /\ ReturnedOk(1, "fts_index")
    /\ LET k == DocKey(document[1], BitmapHashNew(W_fox))
       IN  /\ k \in DOMAIN store
           /\ {TokenTypeWord(0), TokenTypeWord(3), TokenTypeStemmed(3)}
                 \subseteq PostingsDeserialize(store[k])[2].bitmap
    /\ Len(FlatOps(hist[1].writes)) = Cardinality(DOMAIN store)

\* The parts of d whose words take positions.
NumberedParts(d) == {i \in DOMAIN d.parts : d.parts[i].typ[1] \in {"Text", "Tokenize"}}

\* C28: the position counter starts at 0; the words of the Tokenize parts
\* are numbered first, part after part in the order of the caller, the
\* words of the Text parts after them, part after part in the order of the
\* caller, with the same counter going on; so every word of a Text part has
\* a position greater than every word of every Tokenize part.
C28_NumberingOrder ==
    \A t \in Tasks :
        hist[t].call = "fts_index" =>
            LET d   == document[t]
                ins == hist[t].inserts
            IN  /\ \A a, b \in DOMAIN ins :
                      a < b => \/ ins[a].part = ins[b].part
                               \/ NumberedBefore(d, ins[a].part, ins[b].part)
                /\ \A a \in 1..(Len(ins) - 1) : ins[a].position < ins[a + 1].position
                /\ \A a, b \in DOMAIN ins :
                      (/\ d.parts[ins[a].part].typ = TypeTokenize
                       /\ d.parts[ins[b].part].typ[1] = "Text") =>
                          ins[a].position < ins[b].position
                /\ (/\ ins # <<>>
                    /\ \A j \in NumberedParts(d) \ {ins[1].part} :
                          NumberedBefore(d, ins[1].part, j)) =>
                       ins[1].position = 0

\* A Text part, a Tokenize part and another Text part of two words each: the
\* Tokenize part has the positions 0 and 1, the first Text part 12 and 13,
\* the second 24 and 25.
C28_Witness ==
    /\ ReturnedOk(1, "fts_index")
    /\ Len(document[1].parts) = 3
    /\ document[1].parts[1].typ[1] = "Text"
    /\ document[1].parts[2].typ = TypeTokenize
    /\ document[1].parts[3].typ[1] = "Text"
    /\ [n \in DOMAIN hist[1].inserts |-> <<hist[1].inserts[n].part, hist[1].inserts[n].position>>]
          = <<<<2, 0>>, <<2, 1>>, <<1, 12>>, <<1, 13>>, <<3, 24>>, <<3, 25>>>>

\* What the parts of S add to the position counter when each Tokenize or
\* Text part adds its number of words plus the gap.
RECURSIVE SumAdvance(_, _)
SumAdvance(d, S) ==
    IF S = {} THEN 0
    ELSE LET j == CHOOSE x \in S : TRUE
         IN  Len(PartTokens(d, j)) + PositionGap + SumAdvance(d, S \ {j})

\* The counter when the numbering of part i begins: Keyword parts add
\* nothing to it.
ExpectedStart(d, i) ==
    SumAdvance(d, {j \in NumberedParts(d) \ {i} : NumberedBefore(d, j, i)})

\* C29: every Tokenize or Text part advances the position counter by its
\* number of words plus 10, also when it gives no word (empty text, or only
\* words that are dropped), and a Keyword part by 0: the n-th word of a part
\* has the position (sum of words + 10 over the Tokenize and Text parts
\* numbered before it) + n - 1.
C29_CounterAdvance ==
    \A t \in Tasks :
        hist[t].call = "fts_index" =>
            \A a \in DOMAIN hist[t].inserts :
                LET e == hist[t].inserts[a]
                    n == Cardinality({b \in 1..a : hist[t].inserts[b].part = e.part})
                IN  /\ e.part \in NumberedParts(document[t])
                    /\ n <= Len(PartTokens(document[t], e.part))
                    /\ e.position = ExpectedStart(document[t], e.part) + n - 1

\* An empty Tokenize part, a Text part whose only word is dropped and a Text
\* part of two words: the two words have the positions 20 and 21.
C29_Witness ==
    /\ ReturnedOk(1, "fts_index")
    /\ Len(document[1].parts) = 3
    /\ document[1].parts[1].typ = TypeTokenize /\ document[1].parts[1].text = T_empty
    /\ document[1].parts[2].typ[1] = "Text" /\ document[1].parts[2].text = W_oversized
    /\ document[1].parts[3].typ[1] = "Text"
    /\ [n \in DOMAIN hist[1].inserts |-> <<hist[1].inserts[n].part, hist[1].inserts[n].position>>]
          = <<<<3, 20>>, <<3, 21>>>>

\* The byte a field gets when the addition wraps: Header(253), Header(254)
\* and Header(255) get the bytes of Body, Attachment and Keyword.
AliasedId(field) ==
    IF field[1] = "Header" /\ field[2] >= 253 THEN field[2] - 253
    ELSE DocumentedFieldId(field)

\* The run of t recorded every part of its document, whose text is one word,
\* under the aliased byte of its field: the one posting it sets holds
\* word(id) for these bytes and nothing else, and the call fails only at a
\* write.
AliasedRun(t) ==
    /\ pc[t] # "panicked"
    /\ \A op \in keys[t] \cup Range(FlatOps(hist[t].writes)) :
          PostingsDeserialize(op[3][2])[2].bitmap
             = {TokenTypeWord(AliasedId(document[t].parts[i].field)) :
                   i \in DOMAIN document[t].parts}
    /\ (pc[t] = "done" /\ result[t] = "Err") => keys[t] # {}
    /\ (pc[t] = "done" /\ result[t] = "Ok") => DOMAIN store # {}

Scanned(r) ==
    /\ hist[r].call = "fts_remove" /\ pc[r] \in {"remove", "done"}
    /\ ~ScanFailed(r)

\* The store keys the Clears of r's fts_remove address, written or pending.
ClearTargets(r) ==
    {ValueKey(o.account_id, o.collection, o.document_id, o.class) :
        o \in Range(ScopedAll(hist[r].writes \o batches[r]))}

\* The entries the fts_index of i committed after the scan of r: store key
\* and value of every Set of the batches it wrote since then.
CommittedAfterScan(i, r) ==
    {<<ValueKey(o.account_id, o.collection, o.document_id, o.class), o.op[2]>> :
        o \in Range(ScopedAll(SubSeq(hist[i].writes, hist[r].seen[i] + 1,
                                     Len(hist[i].writes))))}

\* The Clears of r are those its scan planned: the batches it wrote and has
\* still to write are the commit loop run on the keys the visitor kept in the
\* store as the scan found it.
ClearsAsScanned(r) ==
    \E order \in Orderings(DOMAIN Scan(hist[r].scanned, args[r].account_id,
                                       args[r].document_ids)[2]) :
        hist[r].writes \o batches[r]
            = RemoveCommit(args[r].account_id, args[r].collection,
                           Scan(hist[r].scanned, args[r].account_id,
                                args[r].document_ids)[2],
                           order, RemoveBatch(args[r].account_id, args[r].collection), <<>>)

\* C31 (as stated): fts_remove clears exactly the keys its scan observed, so
\* every entry of a batch that a concurrent fts_index(d), d in the set,
\* committed after the scan is in the store when fts_remove has returned Ok.
C31_LateBatchSurvives ==
    \A r, i \in Tasks :
        (Scanned(r) /\ i # r /\ hist[i].call = "fts_index") =>
            /\ ClearsAsScanned(r)
            /\ ReturnedOk(r, "fts_remove") =>
                  \A e \in CommittedAfterScan(i, r) :
                      e[1] \in DOMAIN store /\ store[e[1]] = e[2]

\* C31 (amended): the Clears of fts_remove are those planned from the keys
\* its scan observed; an entry that a concurrent fts_index commits after the
\* scan stays in the store, at every later point of the removal, unless its
\* key is one of those the Clears address (the document was indexed before
\* and the scan saw the key).
C31_LateBatchSurvivesUnlessScanned ==
    \A r, i \in Tasks :
        (Scanned(r) /\ i # r /\ hist[i].call = "fts_index") =>
            /\ ClearsAsScanned(r)
            /\ \A e \in CommittedAfterScan(i, r) :
                  e[1] \notin ClearTargets(r) =>
                      e[1] \in DOMAIN store /\ store[e[1]] = e[2]

\* fts_index of the three-token document wrote one batch, fts_remove of its
\* triple scanned, fts_index wrote its second batch, and both returned Ok:
\* the store holds the postings of the second batch and none of the first.
C31_Witness ==
    /\ ReturnedOk(2, "fts_remove") /\ ReturnedOk(1, "fts_index")
    /\ args[2] = [account_id |-> 1, collection |-> 0, document_ids |-> {1}]
    /\ Triple(document[1]) = <<1, 0, 1>>
    /\ Len(hist[1].writes) = 2 /\ hist[2].seen[1] = 1
    /\ hist[2].before = <<>>
    /\ DOMAIN store = {e[1] : e \in CommittedAfterScan(1, 2)}
    /\ DOMAIN store # {}
    /\ DOMAIN hist[2].scanned # {}
    /\ DOMAIN hist[2].scanned \cap DOMAIN store = {}

\* The (account, collection, document) triple a store key belongs to.
KeyTriple(k) == <<KeyAccount(k), k.collection, KeyDocument(k)>>

\* The store keys of the tokens of the fts_index of t.
OwnKeys(t) == {DocKey(document[t], hash) : hash \in hist[t].tokens}

\* C32: fts_index only adds or overwrites entries of its own (account,
\* collection, document) triple: every operation it issues is a Set on a key
\* of its triple, the entries of other triples are as they were, and the
\* entries its triple had for tokens that are not in the document stay as
\* they were.
C32_IndexFrame ==
    \A t \in Tasks :
        hist[t].call = "fts_index" =>
            /\ \A o \in Range(ScopedAll(hist[t].writes)) :
                  /\ o.op[1] = "Set"
                  /\ <<o.account_id, o.collection, o.document_id>> = Triple(document[t])
                  /\ ValueKey(o.account_id, o.collection, o.document_id, o.class) \in OwnKeys(t)
            /\ \A op \in keys[t] : op[3][1] = "Set"
            /\ \A k \in OwnKeys(t) : KeyTriple(k) = Triple(document[t])
            /\ \A k \in DOMAIN hist[t].before \ OwnKeys(t) :
                  k \in DOMAIN store /\ store[k] = hist[t].before[k]
            /\ DOMAIN hist[t].before \subseteq DOMAIN store
            /\ DOMAIN store \ DOMAIN hist[t].before \subseteq OwnKeys(t)

\* fts_index has returned Ok for a document whose triple had entries of
\* three tokens that are not in it and while another triple had an entry:
\* all of these are in the store as before, next to the new entry.
C32_Witness ==
    /\ ReturnedOk(1, "fts_index")
    /\ hist[1].writes # <<>>
    /\ Cardinality({k \in DOMAIN hist[1].before \ OwnKeys(1) :
                       KeyTriple(k) = Triple(document[1])}) = 3
    /\ \E k \in DOMAIN hist[1].before : KeyTriple(k) # Triple(document[1])
    /\ \A k \in DOMAIN hist[1].before : k \in DOMAIN store /\ store[k] = hist[1].before[k]
    /\ DOMAIN store \ DOMAIN hist[1].before # {}

\* The scan of t's fts_remove completed and met no key of the account whose
\* document id is in the set.
NothingFound(t) ==
    /\ hist[t].call = "fts_remove" /\ hist[t].iterated
    /\ \A k \in InScan(hist[t].scanned, args[t].account_id) :
          KeyDocument(k) \notin args[t].document_ids

\* C33: when the scan of fts_remove finds no key whose document id is in the
\* set, fts_remove has returned Ok right after the scan without a write: no
\* batch was written, none is pending, and the store is as it was, although
\* the batch of the call holds its two header records.
C33_NothingFoundNoWrite ==
    \A t \in Tasks :
        NothingFound(t) =>
            /\ pc[t] = "done" /\ result[t] = "Ok"
            /\ hist[t].writes = <<>> /\ batches[t] = <<>>
            /\ store = hist[t].before
            /\ Len(RemoveBatch(args[t].account_id, args[t].collection).ops) = 2
            /\ ~ENABLED RemoveWriteOk(t)

\* fts_remove of a non-empty set has returned on a store that holds entries
\* of the account, none of them of a document of the set.
C33_Witness ==
    /\ NothingFound(1) /\ pc[1] = "done"
    /\ args[1].document_ids # {}
    /\ InScan(hist[1].scanned, args[1].account_id) # {}
    /\ \E k \in DOMAIN store : k.collection = args[1].collection

\* C34: fts_remove works for every 32-bit account id: the call does not
\* panic on account_id + 1, and when it has returned Ok no posting of a
\* document of the set is left under the account and the collection, for
\* account_id = 2^32 - 1 as well.
C34_RemoveAnyAccount ==
    \A t \in Tasks :
        hist[t].call = "fts_remove" =>
            /\ pc[t] # "panicked"
            /\ ReturnedOk(t, "fts_remove") =>
                  \A k \in DOMAIN store :
                      ~ /\ SubSeq(k.key, 1, U32_LEN) = SerializeBeU32(args[t].account_id)
                        /\ k.collection = args[t].collection
                        /\ KeyDocument(k) \in args[t].document_ids

\* The Property that deserialize_value gives back for value: value itself
\* without payload, Header and _T with their empty payloads.
Unloaded(value) ==
    CASE value[1] = "Header" -> <<"Header", EmptyHeaderProperty>>
      [] value[1] = "_T"     -> <<"_T", "">>
      [] OTHER               -> value

\* C35: the one-byte encoding of Property round-trips: the 98 variants have
\* the distinct codes 0..97; deserialize_value maps the code of a variant
\* without payload back to it and the codes 90 and 97 to Header and _T with
\* empty payloads; it returns None for every byte >= 98 and for empty input.
C35_PropertyRoundTrip ==
    \A t \in Tasks :
        /\ Len(PropertyVariants) = 98
        /\ (wire[t].value # None /\ wire[t].bytes # None) =>
              LET value == wire[t].value[2]
                  code  == wire[t].bytes[2][1]
              IN  /\ Len(wire[t].bytes[2]) = 1
                  /\ code \in 0..97
                  /\ \A other \in Properties :
                        PropertyToU8(other) = code <=> other[1] = value[1]
                  /\ value[1] = "Header" <=> code = 90
                  /\ value[1] = "_T" <=> code = 97
                  /\ wire[t].back # <<"NotRun">> =>
                        /\ wire[t].back = <<"Ran", Some(Unloaded(value)), <<>>>>
                        /\ Len(value) = 1 => wire[t].back[2] = Some(value)
        /\ (wire[t].value = None /\ wire[t].back # <<"NotRun">>) =>
              LET bytes == wire[t].bytes[2]
              IN  /\ bytes = <<>> => wire[t].back = <<"Ran", None, <<>>>>
                  /\ (bytes # <<>> /\ bytes[1] >= 98) => wire[t].back[2] = None
                  /\ (bytes # <<>> /\ bytes[1] <= 97) =>
                        \E value \in Properties :
                            /\ wire[t].back[2] = Some(Unloaded(value))
                            /\ PropertyToU8(value) = bytes[1]
                  /\ bytes # <<>> => wire[t].back[3] = Tail(bytes)

\* A Header with a payload was serialized to the byte 90 and decoded to the
\* Header with the empty payload: the payload is lost.
C35_Witness ==
    /\ wire[1].value = Some(<<"Header", [form |-> "Text", header |-> "Subject", all |-> TRUE]>>)
    /\ wire[1].bytes = Some(<<90>>)
    /\ wire[1].back = <<"Ran", Some(<<"Header", EmptyHeaderProperty>>), <<>>>>
    /\ wire[1].back[2] # wire[1].value

\* The members of the object parse of t was given.
ParsedMembers(t) == parser[t].input[2][2]

\* The object of t holds the key, and the value of its last member with
\* that key.
Holds(t, key) == \E i \in DOMAIN ParsedMembers(t) : ParsedMembers(t)[i].key = key
LastValue(t, key) ==
    ParsedMembers(t)[SetMax({i \in DOMAIN ParsedMembers(t) : ParsedMembers(t)[i].key = key})].value

\* Every member of the object of t is read without an error.
AllAccepted(t) == \A i \in DOMAIN ParsedMembers(t) : ParsedMembers(t)[i].value # Rejected

\* The values of the members of unknown keys are well-formed, so that the
\* text is a JSON object.
WellFormed(t) ==
    \A i \in DOMAIN ParsedMembers(t) :
        ParsedMembers(t)[i].key \notin {K_resultOf, K_name, K_path}
            => ParsedMembers(t)[i].value # Rejected

\* parse of t has returned for an object.
ParsedObject(t) ==
    /\ parser[t].out # <<"NotRun">>
    /\ parser[t].input[2][1] = "Dict"

====
